---- MODULE Spec2Model ----
(***************************************************************************)
(* Signal-to-position pipeline of the KuCoin fair-price trading bot.       *)
(*                                                                         *)
(* Node.js runs every handler to its next network await without            *)
(* interruption, so one action of this model is one such run: from the     *)
(* delivery of a message (or the completion of a network call) up to the   *)
(* next network call.  Awaits that resolve without I/O (an async function  *)
(* that returns at once) are part of the same action.  The fetches of      *)
(* gates 8 and 9 and at the head of openPosition touch no shared state     *)
(* between them (the ledger and the counters are neither read nor written) *)
(* and are one action, Prepare.  A handler that has returned gives its     *)
(* place to a later message (Return).                                      *)
(***************************************************************************)
EXTENDS Integers, Sequences, FiniteSets, TLC

\* ---- bounds of the model ------------------------------------------------
NumSignals == 3      \* messages the alert channel delivers in one behaviour
MaxInFlight == 2     \* handleChannelMessage calls that may be in flight together
NumTicks == 2        \* reconciliation ticks that may be in flight together
MaxDay == 1          \* calendar days after the start day

\* ---- configuration (src/config/settings.js) ------------------------------
maxOpenPositions == 1
maxDailyTrades == 2
leverage == 10
positionSizePercent == 5

Symbols == {"AUSDTM", "BUSDTM"}
Directions == {"LONG", "SHORT"}
\* the alerts the channel posts: AUSDTM is alerted LONG, BUSDTM is alerted SHORT
DirectionOf(symbol) == IF symbol = "AUSDTM" THEN "LONG" ELSE "SHORT"
MinSpreadChoices == {2}
Spreads == {0, 1, 3}          \* 0 stands for an absent (null) spread
Tasks == 1..MaxInFlight
Ticks == 1..NumTicks

\* ---- JavaScript numbers: IEEE-754 binary64, round to nearest, ties to even --
\* (no overflow to Infinity and no subnormal numbers: the values of this
\* specification stay far from both).  The arithmetic is written as functions:
\* a function is applied to the value of its argument, worked out once.
\* A natural number of any size is a sequence of limbs, least significant
\* first, each below 2^15 and the last one nonzero.
Big == Seq(Nat)

Limb(a, i) == IF 1 <= i /\ i <= Len(a) THEN a[i] ELSE 0

Trim[a \in Big] ==
  LET used == {i \in 1..Len(a) : a[i] # 0}
  IN  IF used = {} THEN <<>>
      ELSE SubSeq(a, 1, CHOOSE i \in used : \A j \in used : j <= i)

\* an integer below 2^31 as limbs, and back
BigOf[n \in Nat] == Trim[<<n % 32768, (n \div 32768) % 32768, n \div 1073741824>>]

IntOf[a \in Big] == Limb(a, 1) + 32768 * Limb(a, 2) + 1073741824 * Limb(a, 3)

\* the carry into limb i of a + b: a limb below overflows and all between pass it on
Carry(a, b, i) ==
  \E j \in 1..(i - 1) : /\ Limb(a, j) + Limb(b, j) >= 32768
                        /\ \A l \in (j + 1)..(i - 1) : Limb(a, l) + Limb(b, l) = 32767

BigAdd[a \in Big, b \in Big] ==
  Trim[[i \in 1..((IF Len(a) > Len(b) THEN Len(a) ELSE Len(b)) + 1) |->
          (Limb(a, i) + Limb(b, i) + (IF Carry(a, b, i) THEN 1 ELSE 0)) % 32768]]

Borrow(a, b, i) ==
  \E j \in 1..(i - 1) : /\ Limb(a, j) < Limb(b, j)
                        /\ \A l \in (j + 1)..(i - 1) : Limb(a, l) = Limb(b, l)

\* a - b, for a >= b
BigSub[a \in Big, b \in Big] ==
  Trim[[i \in 1..Len(a) |->
          (Limb(a, i) - Limb(b, i) - (IF Borrow(a, b, i) THEN 1 ELSE 0)) % 32768]]

BigLess[a \in Big, b \in Big] ==
  IF Len(a) # Len(b) THEN Len(a) < Len(b)
  ELSE \E i \in 1..Len(a) : /\ a[i] < b[i]
                            /\ \A j \in (i + 1)..Len(a) : a[j] = b[j]

\* a * k, for a limb k
BigMulSmall[a \in Big, k \in Nat] ==
  BigAdd[[i \in 1..Len(a) |-> (a[i] * k) % 32768],
         [i \in 1..(Len(a) + 1) |-> IF i = 1 THEN 0 ELSE (a[i - 1] * k) \div 32768]]

BigMul[a \in Big, b \in Big] ==
  IF b = <<>> \/ a = <<>> THEN <<>>
  ELSE BigAdd[BigMulSmall[a, b[1]], Trim[<<0>> \o BigMul[a, Tail(b)]]]

\* a * 2^k, the whole part of a / 2^k and its rest
ShiftLeft[a \in Big, k \in Nat] ==
  Trim[[i \in 1..(Len(a) + k \div 15 + 1) |->
          ((Limb(a, i - k \div 15) * 2^(k % 15)) % 32768)
            + (Limb(a, i - k \div 15 - 1) \div 2^(15 - (k % 15)))]]

ShiftRight[a \in Big, k \in Nat] ==
  Trim[[i \in 1..Len(a) |->
          (Limb(a, i + k \div 15) \div 2^(k % 15))
            + (Limb(a, i + k \div 15 + 1) % 2^(k % 15)) * 2^(15 - (k % 15))]]

LowBits[a \in Big, k \in Nat] ==
  Trim[[i \in 1..(k \div 15 + 1) |->
          IF i <= k \div 15 THEN Limb(a, i) ELSE Limb(a, i) % 2^(k % 15)]]

\* the number of bits of a limb, and of a number
Bits(n) == CHOOSE k \in 0..15 : n < 2^k /\ (k = 0 \/ n >= 2^(k - 1))

BitLen[a \in Big] == IF a = <<>> THEN 0 ELSE 15 * (Len(a) - 1) + Bits(a[Len(a)])

\* a quotient and the rest of the division
QuotRest == [q : Big, r : Big]

\* the limb of the quotient of cur / b, for cur < b * 2^15 and the top bit of the
\* top limb of b set: guessed from the top limbs, the guess at most two too large
QuotLimb[cur \in Big, b \in Big] ==
  LET top == Limb(cur, Len(b) + 1) * 32768 + Limb(cur, Len(b))
      guess == IF top \div b[Len(b)] > 32767 THEN 32767 ELSE top \div b[Len(b)]
  IN  IF ~BigLess[cur, BigMulSmall[b, guess]] THEN guess
      ELSE IF ~BigLess[cur, BigMulSmall[b, guess - 1]] THEN guess - 1
      ELSE guess - 2

\* one step of the long division: the next limb of the quotient and the rest
DivStep[cur \in Big, b \in Big, limb \in Nat, q \in Big] ==
  [q |-> <<limb>> \o q, r |-> BigSub[cur, BigMulSmall[b, limb]]]

\* long division, a limb of the dividend at a time, from limb i down; qr is the
\* quotient and the rest so far
DivFrom[a \in Big, b \in Big, i \in Nat, qr \in QuotRest] ==
  IF i = 0 THEN qr
  ELSE DivFrom[a, b, i - 1,
               DivStep[Trim[<<a[i]>> \o qr.r], b, QuotLimb[Trim[<<a[i]>> \o qr.r], b], qr.q]]

\* a / b for b > 0 with the top bit of its top limb set: the limbs of a above the
\* length of b are the first rest
DivNormal[a \in Big, b \in Big] ==
  IF BigLess[a, b] THEN [q |-> <<>>, r |-> a]
  ELSE DivFrom[a, b, Len(a) - Len(b) + 1,
               [q |-> <<>>, r |-> SubSeq(a, Len(a) - Len(b) + 2, Len(a))]]

Unscaled[d \in QuotRest, scale \in Nat] ==
  [q |-> Trim[d.q], r |-> ShiftRight[d.r, scale]]

\* quotient and rest of a / b, for b > 0
BigDivMod[a \in Big, b \in Big] ==
  Unscaled[DivNormal[ShiftLeft[a, 15 - Bits(b[Len(b)])], ShiftLeft[b, 15 - Bits(b[Len(b)])]],
           15 - Bits(b[Len(b)])]

\* A number is +-m * 2^e with m = 0 or 2^52 <= m < 2^53; NaN is apart.
Numbers == [neg : BOOLEAN, m : Big, e : Int]
Zero == [neg |-> FALSE, m |-> <<>>, e |-> 0]
NaN == [neg |-> FALSE, m |-> <<>>, e |-> 1]
IsZero(x) == x.m = <<>>
Negative(x) == x.neg /\ ~IsZero(x)

\* m * 2^e for m of 53 bits or 54
Carried[m \in Big, e \in Int] ==
  IF BitLen[m] > 53 THEN [neg |-> FALSE, m |-> ShiftRight[m, 1], e |-> e + 1]
  ELSE [neg |-> FALSE, m |-> m, e |-> e]

\* n without its last k bits, rounded up or down by them
Nearest[q \in Big, r \in Big, half \in Big] ==
  IF BigLess[half, r] \/ (r = half /\ q[1] % 2 = 1) THEN BigAdd[q, <<1>>] ELSE q

\* The number nearest to n * 2^e for n of k + 53 bits, the even one of two equally near.
RoundBits[n \in Big, e \in Int, k \in Int] ==
  IF n = <<>> THEN Zero
  ELSE IF k <= 0 THEN [neg |-> FALSE, m |-> ShiftLeft[n, -k], e |-> e + k]
  ELSE Carried[Nearest[ShiftRight[n, k], LowBits[n, k], ShiftLeft[<<1>>, k - 1]], e + k]

Round[n \in Big, e \in Int] == RoundBits[n, e, BitLen[n] - 53]

\* an integer as a number
Num[n \in Int] ==
  IF n < 0 THEN [Round[BigOf[-n], 0] EXCEPT !.neg = TRUE] ELSE Round[BigOf[n], 0]

\* x * y
fmul[x \in Numbers, y \in Numbers] ==
  IF IsZero(x) \/ IsZero(y) THEN [Zero EXCEPT !.neg = (x.neg # y.neg)]
  ELSE [Round[BigMul[x.m, y.m], x.e + y.e] EXCEPT !.neg = (x.neg # y.neg)]

\* twice the quotient, its last bit set when the division left a rest
Sticky[d \in QuotRest] ==
  IF d.r = <<>> THEN ShiftLeft[d.q, 1] ELSE BigAdd[ShiftLeft[d.q, 1], <<1>>]

\* x / y: the quotient to 55 bits and more, then rounded (x / 0, which is
\* infinite or NaN, is NaN here)
fdiv[x \in Numbers, y \in Numbers] ==
  IF IsZero(y) THEN NaN
  ELSE IF IsZero(x) THEN [Zero EXCEPT !.neg = (x.neg # y.neg)]
  ELSE [Round[Sticky[BigDivMod[ShiftLeft[x.m, 56], y.m]], x.e - y.e - 57]
          EXCEPT !.neg = (x.neg # y.neg)]

MagLess(x, y) ==
  IF IsZero(y) THEN FALSE
  ELSE IF IsZero(x) THEN TRUE
  ELSE IF x.e # y.e THEN x.e < y.e
  ELSE BigLess[x.m, y.m]

\* x < y
fless[x \in Numbers, y \in Numbers] ==
  IF Negative(x) # Negative(y) THEN Negative(x)
  ELSE IF Negative(x) THEN MagLess(y, x)
  ELSE MagLess(x, y)

\* Math.floor, as an integer (below 2^31)
ffloor[x \in Numbers] ==
  IF IsZero(x) THEN 0
  ELSE IF x.e >= 0 THEN (IF x.neg THEN -IntOf[ShiftLeft[x.m, x.e]] ELSE IntOf[ShiftLeft[x.m, x.e]])
  ELSE IF ~x.neg THEN IntOf[ShiftRight[x.m, -x.e]]
  ELSE IF LowBits[x.m, -x.e] = <<>> THEN -IntOf[ShiftRight[x.m, -x.e]]
  ELSE -IntOf[ShiftRight[x.m, -x.e]] - 1

\* the decimal n / 10^d, as parseFloat reads it
Dec[n \in Int, d \in Nat] == fdiv[Num[n], Num[10^d]]

\* ---- venue responses ------------------------------------------------------
BalanceResp == {[ok |-> FALSE, val |-> 0], [ok |-> TRUE, val |-> 0], [ok |-> TRUE, val |-> 100]}
PriceResp == {[ok |-> FALSE, val |-> 0], [ok |-> TRUE, val |-> 1], [ok |-> TRUE, val |-> 2000]}
InfoResp ==
  {[ok |-> FALSE, status |-> "", multiplier |-> 1, minOrderQty |-> 1, maxOrderQty |-> 1000000],
   [ok |-> TRUE, status |-> "Open", multiplier |-> 1, minOrderQty |-> 1, maxOrderQty |-> 1000000],
   [ok |-> TRUE, status |-> "Paused", multiplier |-> 1, minOrderQty |-> 1, maxOrderQty |-> 1000000]}
PositionsResp == {"zero", "nonzero", "error"}
\* the recent done orders of the symbol: none, or one on the given side
HistoryResp ==
  {[ok |-> FALSE, side |-> "", price |-> 0],
   [ok |-> TRUE, side |-> "", price |-> 0],
   [ok |-> TRUE, side |-> "sell", price |-> 3],
   [ok |-> TRUE, side |-> "buy", price |-> 3]}
Signals ==
  {[type |-> "OPEN", symbol |-> s, direction |-> DirectionOf(s)] : s \in Symbols}
    \cup {[type |-> "CLOSE", symbol |-> s, direction |-> ""] : s \in Symbols}

VARIABLES
  config,            \* config.trading.dryRun, config.risk.minSpreadPercent
  openPositions,     \* PositionService.openPositions, in Map insertion order
  closedPositions,   \* PositionService.closedPositions
  statistics,        \* the orchestrator's statistics object, and countsOld (history:
                     \* dailyTrades counts a trade opened before the day `today`)
  today,             \* the calendar date getCurrentDate() returns
  orderSeq,          \* order ids handed out so far
  pc,                \* where each signal's handler stands
  signal,            \* the parsed signal each handler was called with
  reason,            \* the gate that rejected the signal (0: none)
  outcome,           \* how the handler ended
  venueCalls,        \* venue queries the handler has issued
  order,             \* the venue order the handler has submitted
  notified,          \* the notification the handler has sent
  plan,              \* openPosition's positionParams while the order is in flight
  tick,              \* the reconciliation ticks in flight
  checked,           \* what validateSignal saw: signal.spread, blocklist, trading hours
  lastClosed,        \* history: symbols whose latest accepted signal is a CLOSE
  call,              \* a function of the program being applied: its arguments and its result
  proc               \* the process: how far initialize and the shutdown are, the exit

ledgerVars == <<openPositions, closedPositions, statistics, orderSeq, lastClosed>>
taskVars == <<pc, signal, reason, outcome, venueCalls, order, notified, plan, checked>>
vars == <<config, openPositions, closedPositions, statistics, today, orderSeq,
          pc, signal, reason, outcome, venueCalls, order, notified, plan, tick, lastClosed,
          checked, call, proc>>

NoSignal == [type |-> "NONE", symbol |-> "", direction |-> ""]
NoPosition == [symbol |-> "", direction |-> "", entryPrice |-> 0, quantity |-> 0,
               orderId |-> 0, slot |-> 0]
NoOrder == [kind |-> "none", symbol |-> "", side |-> "", size |-> 0]
NoPlan == [entryPrice |-> 0, quantity |-> 0]
NotChecked == [spread |-> 0, blocked |-> FALSE, hoursActive |-> FALSE]
NoCall == [op |-> "none"]

\* ---- the position ledger (src/services/position.service.js) ---------------
MapHas(m, symbol) == \E i \in 1..Len(m) : m[i].symbol = symbol

MapGet(m, symbol) ==
  IF MapHas(m, symbol)
  THEN m[CHOOSE i \in 1..Len(m) : m[i].symbol = symbol]
  ELSE NoPosition

\* A ledger that appends whatever it is given.
addOpenPosition_appends(m, positionData) == Append(m, positionData)

\* Map.set keeps the place of a key it already holds and appends a new key.
addOpenPosition(m, positionData) ==
  IF MapHas(m, positionData.symbol)
  THEN [i \in 1..Len(m) |->
          IF m[i].symbol = positionData.symbol
          THEN [positionData EXCEPT !.slot = m[i].slot]
          ELSE m[i]]
  ELSE Append(m, positionData)

\* A removal that removes nothing.
removeOpenPosition_keepsAll(m, symbol) == m

IsNot(symbol, e) == e.symbol # symbol

removeOpenPosition(m, symbol) == SelectSeq(m, LAMBDA e : IsNot(symbol, e))

hasOpenPosition(symbol) == MapHas(openPositions, symbol)

getOpenPosition(symbol) == MapGet(openPositions, symbol)

getOpenPositionsCount == Len(openPositions)

\* addClosedPosition that puts the record first
addClosedPosition_prepends(h, positionData) == <<positionData>> \o h

addClosedPosition(h, positionData) == Append(h, positionData)

\* ---- risk sizing (src/services/risk.service.js) ---------------------------
\* isValidNumber (utils/helpers.js): a number that is not NaN
isValidNumber(value) == value # NaN

NoParams == [ok |-> FALSE, error |-> "", entryPrice |-> Zero, quantity |-> 0,
             positionSizeUSDT |-> Zero, requiredMargin |-> Zero]

\* throw new Error(message)
Failed(message) == [NoParams EXCEPT !.error = message]

Clamp(lots, lo, hi) ==
  LET raised == IF lots < lo THEN lo ELSE lots
  IN  IF raised > hi THEN hi ELSE raised

\* calculatePositionParameters with the margin checked on the lots before the clamp
calculatePositionParameters_marginBeforeClamp(balance, entryPrice, direction, symbolInfo) ==
  IF ~isValidNumber(balance) \/ ~fless[Zero, balance] THEN Failed("Invalid balance")
  ELSE IF ~isValidNumber(entryPrice) \/ ~fless[Zero, entryPrice]
  THEN Failed("Invalid entry price")
  ELSE IF direction \notin Directions THEN Failed("Invalid direction")
  ELSE LET multiplier == IF IsZero(symbolInfo.multiplier) THEN Num[1] ELSE symbolInfo.multiplier
           minOrderQty == IF symbolInfo.minOrderQty = 0 THEN 1 ELSE symbolInfo.minOrderQty
           maxOrderQty == IF symbolInfo.maxOrderQty = 0 THEN 1000000 ELSE symbolInfo.maxOrderQty
           positionSizeUSDT == fmul[balance, fdiv[Num[positionSizePercent], Num[100]]]
           floored == ffloor[fdiv[positionSizeUSDT, fmul[entryPrice, multiplier]]]
           lots == Clamp(floored, minOrderQty, maxOrderQty)
           size == fmul[fmul[Num[lots], entryPrice], multiplier]
       IN  IF fless[balance, fdiv[fmul[fmul[Num[floored], entryPrice], multiplier], Num[leverage]]]
           THEN Failed("Insufficient balance")
           ELSE [ok |-> TRUE, error |-> "", entryPrice |-> entryPrice, quantity |-> lots,
                 positionSizeUSDT |-> size, requiredMargin |-> fdiv[size, Num[leverage]]]

\* calculatePositionParameters with the arguments checked after the sizing
calculatePositionParameters_validatesLast(balance, entryPrice, direction, symbolInfo) ==
  LET multiplier == IF IsZero(symbolInfo.multiplier) THEN Num[1] ELSE symbolInfo.multiplier
      minOrderQty == IF symbolInfo.minOrderQty = 0 THEN 1 ELSE symbolInfo.minOrderQty
      maxOrderQty == IF symbolInfo.maxOrderQty = 0 THEN 1000000 ELSE symbolInfo.maxOrderQty
      positionSizeUSDT == fmul[balance, fdiv[Num[positionSizePercent], Num[100]]]
      lots == Clamp(ffloor[fdiv[positionSizeUSDT, fmul[entryPrice, multiplier]]],
                    minOrderQty, maxOrderQty)
      size == fmul[fmul[Num[lots], entryPrice], multiplier]
      requiredMargin == fdiv[size, Num[leverage]]
  IN  IF fless[balance, requiredMargin] THEN Failed("Insufficient balance")
      ELSE IF ~isValidNumber(balance) \/ ~fless[Zero, balance] THEN Failed("Invalid balance")
      ELSE IF ~isValidNumber(entryPrice) \/ ~fless[Zero, entryPrice]
      THEN Failed("Invalid entry price")
      ELSE IF direction \notin Directions THEN Failed("Invalid direction")
      ELSE [ok |-> TRUE, error |-> "", entryPrice |-> entryPrice, quantity |-> lots,
            positionSizeUSDT |-> size, requiredMargin |-> requiredMargin]

calculatePositionParameters(balance, entryPrice, direction, symbolInfo) ==
  IF ~isValidNumber(balance) \/ ~fless[Zero, balance] THEN Failed("Invalid balance")
  ELSE IF ~isValidNumber(entryPrice) \/ ~fless[Zero, entryPrice]
  THEN Failed("Invalid entry price")
  ELSE IF direction \notin Directions THEN Failed("Invalid direction")
  ELSE LET multiplier == IF IsZero(symbolInfo.multiplier) THEN Num[1] ELSE symbolInfo.multiplier
           minOrderQty == IF symbolInfo.minOrderQty = 0 THEN 1 ELSE symbolInfo.minOrderQty
           maxOrderQty == IF symbolInfo.maxOrderQty = 0 THEN 1000000 ELSE symbolInfo.maxOrderQty
           positionSizeUSDT == fmul[balance, fdiv[Num[positionSizePercent], Num[100]]]
           lots == Clamp(ffloor[fdiv[positionSizeUSDT, fmul[entryPrice, multiplier]]],
                         minOrderQty, maxOrderQty)
           size == fmul[fmul[Num[lots], entryPrice], multiplier]
           requiredMargin == fdiv[size, Num[leverage]]
       IN  IF fless[balance, requiredMargin]
           THEN Failed("Insufficient balance")
           ELSE [ok |-> TRUE, error |-> "", entryPrice |-> entryPrice, quantity |-> lots,
                 positionSizeUSDT |-> size, requiredMargin |-> requiredMargin]

\* balance >= requiredMargin, both valid numbers
hasSufficientBalance(balance, requiredMargin) ==
  isValidNumber(balance) /\ isValidNumber(requiredMargin) /\ ~fless[balance, requiredMargin]

\* openPosition's sizing of every answer the venue gives, worked out once: the
\* plan, or the error thrown.  The venue's answers are whole numbers here, and
\* the ledger keeps the price as the whole number it is.
Sizings ==
  {[balance |-> b.val, currentPrice |-> p.val, direction |-> d, symbolInfo |-> i.val,
    positionParams |->
      LET params == calculatePositionParameters(b.number, p.number, d, i.number)
      IN  [ok |-> params.ok /\ hasSufficientBalance(b.number, params.requiredMargin),
           entryPrice |-> p.val, quantity |-> params.quantity]] :
     b \in {[val |-> r.val, number |-> Num[r.val]] : r \in BalanceResp},
     p \in {[val |-> r.val, number |-> Num[r.val]] : r \in PriceResp},
     d \in Directions,
     i \in {[val |-> r, number |-> [r EXCEPT !.multiplier = Num[r.multiplier]]] : r \in InfoResp}}

Sizing(balance, currentPrice, direction, symbolInfo) ==
  (CHOOSE s \in Sizings : /\ s.balance = balance
                          /\ s.currentPrice = currentPrice
                          /\ s.direction = direction
                          /\ s.symbolInfo = symbolInfo).positionParams

\* Gates 1-7 without gate 6 (the number of open positions).
LocalGate_withoutCountGate(sig, spread, blocked, hoursActive) ==
  IF config.minSpreadPercent > 0 /\ (spread = 0 \/ spread < config.minSpreadPercent) THEN 1
  ELSE IF blocked THEN 2
  ELSE IF sig.direction \notin Directions THEN 3
  ELSE IF ~hoursActive THEN 4
  ELSE IF hasOpenPosition(sig.symbol) THEN 5
  ELSE IF statistics.dailyTrades >= maxDailyTrades THEN 7
  ELSE 0

\* Gates 1-7 with the trading hours checked before the blocklist.
LocalGate_hoursFirst(sig, spread, blocked, hoursActive) ==
  IF config.minSpreadPercent > 0 /\ (spread = 0 \/ spread < config.minSpreadPercent) THEN 1
  ELSE IF ~hoursActive THEN 4
  ELSE IF blocked THEN 2
  ELSE IF sig.direction \notin Directions THEN 3
  ELSE IF hasOpenPosition(sig.symbol) THEN 5
  ELSE IF getOpenPositionsCount >= maxOpenPositions THEN 6
  ELSE IF statistics.dailyTrades >= maxDailyTrades THEN 7
  ELSE 0

\* ---- admission gates 1-7 (validateSignal up to its first network call) ----
\* Gates whose spread filter does not look whether a minimum is configured.
LocalGate_filterAlways(sig, spread, blocked, hoursActive) ==
  IF spread = 0 \/ spread < config.minSpreadPercent THEN 1
  ELSE IF blocked THEN 2
  ELSE IF sig.direction \notin Directions THEN 3
  ELSE IF ~hoursActive THEN 4
  ELSE IF hasOpenPosition(sig.symbol) THEN 5
  ELSE IF getOpenPositionsCount >= maxOpenPositions THEN 6
  ELSE IF statistics.dailyTrades >= maxDailyTrades THEN 7
  ELSE 0

LocalGate(sig, spread, blocked, hoursActive) ==
  IF config.minSpreadPercent > 0 /\ (spread = 0 \/ spread < config.minSpreadPercent) THEN 1
  ELSE IF blocked THEN 2
  ELSE IF sig.direction \notin Directions THEN 3
  ELSE IF ~hoursActive THEN 4
  ELSE IF hasOpenPosition(sig.symbol) THEN 5
  ELSE IF getOpenPositionsCount >= maxOpenPositions THEN 6
  ELSE IF statistics.dailyTrades >= maxDailyTrades THEN 7
  ELSE 0

\* ---- the handler's ways out ------------------------------------------------
Ignored(stats, g) ==
  IF g = 4 THEN [stats EXCEPT !.signalsIgnored = @ + 1] ELSE stats

\* handleSignal, validation failed: notify (live only), count, return.
Reject(t, g, stats) ==
  /\ reason' = [reason EXCEPT ![t] = g]
  /\ outcome' = [outcome EXCEPT ![t] = "rejected"]
  /\ IF config.dryRun
     THEN /\ pc' = [pc EXCEPT ![t] = "done"]
          /\ statistics' = Ignored(stats, g)
          /\ UNCHANGED notified
     ELSE /\ pc' = [pc EXCEPT ![t] = "ignored_msg"]
          /\ statistics' = stats
          /\ notified' = [notified EXCEPT ![t] = "ignored"]

\* handleSignal's catch block: log, notify (live only), return.
Throw(t) ==
  /\ outcome' = [outcome EXCEPT ![t] = "failed"]
  /\ IF config.dryRun
     THEN /\ pc' = [pc EXCEPT ![t] = "done"]
          /\ UNCHANGED notified
     ELSE /\ pc' = [pc EXCEPT ![t] = "error_msg"]
          /\ notified' = [notified EXCEPT ![t] = "error"]

NewPosition(sig, params) ==
  [symbol |-> sig.symbol, direction |-> sig.direction, entryPrice |-> params.entryPrice,
   quantity |-> params.quantity, orderId |-> orderSeq + 1, slot |-> orderSeq + 1]

\* openPosition, after the fill (real or simulated): register and count.
Register(t, params) ==
  /\ openPositions' = addOpenPosition(openPositions, NewPosition(signal[t], params))
  /\ orderSeq' = orderSeq + 1
  /\ lastClosed' = lastClosed \ {signal[t].symbol}
  /\ statistics' = [statistics EXCEPT !.totalTrades = @ + 1, !.dailyTrades = @ + 1]
  /\ outcome' = [outcome EXCEPT ![t] = "opened"]
  /\ pc' = [pc EXCEPT ![t] = "done"]

\* the services and the statistics as constructed
Constructed ==
  /\ openPositions = <<>>
  /\ closedPositions = <<>>
  /\ statistics = [totalTrades |-> 0, dailyTrades |-> 0, signalsIgnored |-> 0,
                   totalSignals |-> 0, lastResetDate |-> 0, countsOld |-> FALSE]
  /\ today = 0
  /\ orderSeq = 0
  /\ pc = [t \in Tasks |-> "idle"]
  /\ signal = [t \in Tasks |-> NoSignal]
  /\ reason = [t \in Tasks |-> 0]
  /\ outcome = [t \in Tasks |-> "none"]
  /\ venueCalls = [t \in Tasks |-> {}]
  /\ order = [t \in Tasks |-> NoOrder]
  /\ notified = [t \in Tasks |-> "none"]
  /\ plan = [t \in Tasks |-> NoPlan]
  /\ tick = <<>>
  /\ lastClosed = {}
  /\ checked = [t \in Tasks |-> NotChecked]
  /\ call = NoCall

\* the process with initialize done: handleSignal registered, the timer set
Running ==
  [init |-> "done", shutdown |-> "none", exited |-> FALSE, status |-> 0, callbacks |-> 1,
   monitoring |-> TRUE, handler |-> "idle", escaped |-> FALSE, arrived |-> 0,
   dispatched |-> 0, ticks |-> 0, failures |-> 0]

Init ==
  /\ config \in [dryRun : BOOLEAN, minSpreadPercent : MinSpreadChoices]
  /\ Constructed
  /\ proc = Running

\* A handler that has ended returns to handleChannelMessage in the same turn
\* of the event loop, before any other callback runs.
NoneDone == \A t \in Tasks : pc[t] # "done"

\* ---- signal handling (handleChannelMessage -> handleSignal) ---------------
\* A closePosition without the lookup guard: it goes on to close whatever
\* getOpenPosition returns.
closePosition_unguarded(t, sig) ==
  LET trackedPosition == getOpenPosition(sig.symbol) IN
  IF trackedPosition = NoPosition
  THEN /\ Throw(t)
       /\ UNCHANGED <<openPositions, order, lastClosed>>
  ELSE IF config.dryRun
  THEN /\ openPositions' = removeOpenPosition(openPositions, sig.symbol)
       /\ pc' = [pc EXCEPT ![t] = "done"]
       /\ outcome' = [outcome EXCEPT ![t] = "closed"]
       /\ lastClosed' = lastClosed \cup {sig.symbol}
       /\ UNCHANGED <<order, notified>>
  ELSE /\ order' = [order EXCEPT ![t] =
                      [kind |-> "close", symbol |-> sig.symbol,
                       side |-> IF trackedPosition.direction = "LONG" THEN "sell" ELSE "buy",
                       size |-> trackedPosition.quantity]]
       /\ pc' = [pc EXCEPT ![t] = "closing"]
       /\ UNCHANGED <<openPositions, outcome, notified, lastClosed>>

\* A closePosition that sends the closing order in dry-run mode as well.
closePosition_ordersInDryRun(t, sig) ==
  IF ~hasOpenPosition(sig.symbol)
  THEN /\ pc' = [pc EXCEPT ![t] = "done"]
       /\ outcome' = [outcome EXCEPT ![t] = "noop"]
       /\ UNCHANGED <<openPositions, order, notified, lastClosed>>
  ELSE LET trackedPosition == getOpenPosition(sig.symbol) IN
       /\ order' = [order EXCEPT ![t] =
                      [kind |-> "close", symbol |-> sig.symbol,
                       side |-> IF trackedPosition.direction = "LONG" THEN "sell" ELSE "buy",
                       size |-> trackedPosition.quantity]]
       /\ pc' = [pc EXCEPT ![t] = "closing"]
       /\ UNCHANGED <<openPositions, outcome, notified, lastClosed>>

\* A closePosition that sends the closing order on the side of the position.
closePosition_sameSide(t, sig) ==
  IF ~hasOpenPosition(sig.symbol)
  THEN /\ pc' = [pc EXCEPT ![t] = "done"]
       /\ outcome' = [outcome EXCEPT ![t] = "noop"]
       /\ UNCHANGED <<openPositions, order, notified, lastClosed>>
  ELSE LET trackedPosition == getOpenPosition(sig.symbol) IN
       IF config.dryRun
       THEN /\ openPositions' = removeOpenPosition(openPositions, sig.symbol)
            /\ pc' = [pc EXCEPT ![t] = "done"]
            /\ outcome' = [outcome EXCEPT ![t] = "closed"]
            /\ lastClosed' = lastClosed \cup {sig.symbol}
            /\ UNCHANGED <<order, notified>>
       ELSE /\ order' = [order EXCEPT ![t] =
                           [kind |-> "close", symbol |-> sig.symbol,
                            side |-> IF trackedPosition.direction = "LONG" THEN "buy" ELSE "sell",
                            size |-> trackedPosition.quantity]]
            /\ pc' = [pc EXCEPT ![t] = "closing"]
            /\ UNCHANGED <<openPositions, outcome, notified, lastClosed>>

\* closePosition, entered synchronously from handleSignal.
closePosition(t, sig) ==
  IF ~hasOpenPosition(sig.symbol)
  THEN /\ pc' = [pc EXCEPT ![t] = "done"]
       /\ outcome' = [outcome EXCEPT ![t] = "noop"]
       /\ UNCHANGED <<openPositions, order, notified, lastClosed>>
  ELSE LET trackedPosition == getOpenPosition(sig.symbol) IN
       IF trackedPosition = NoPosition
       THEN \* reading a field of undefined throws
            /\ Throw(t)
            /\ UNCHANGED <<openPositions, order, lastClosed>>
       ELSE IF config.dryRun
       THEN /\ openPositions' = removeOpenPosition(openPositions, sig.symbol)
            /\ pc' = [pc EXCEPT ![t] = "done"]
            /\ outcome' = [outcome EXCEPT ![t] = "closed"]
            /\ lastClosed' = lastClosed \cup {sig.symbol}
            /\ UNCHANGED <<order, notified>>
       ELSE /\ order' = [order EXCEPT ![t] =
                           [kind |-> "close", symbol |-> sig.symbol,
                            side |-> IF trackedPosition.direction = "LONG" THEN "sell" ELSE "buy",
                            size |-> trackedPosition.quantity]]
            /\ pc' = [pc EXCEPT ![t] = "closing"]
            /\ UNCHANGED <<openPositions, outcome, notified, lastClosed>>

\* A channel post arrives: parse, handleSignal, and for an OPEN signal gates
\* 1-7 of validateSignal, all before the first network call.
Deliver(t) ==
  /\ pc[t] = "idle"
  /\ NoneDone
  /\ \A u \in Tasks : u < t => pc[u] # "idle"
  /\ statistics.totalSignals < NumSignals
  /\ \E sig \in Signals :
       LET stats == [statistics EXCEPT !.totalSignals = @ + 1]
       IN  /\ signal' = [signal EXCEPT ![t] = sig]
           /\ IF sig.type = "OPEN"
              THEN \E spread \in Spreads, blocked \in BOOLEAN, hoursActive \in BOOLEAN :
                     LET g == LocalGate(sig, spread, blocked, hoursActive)
                     IN  /\ checked' = [checked EXCEPT ![t] =
                               [spread |-> spread, blocked |-> blocked,
                                hoursActive |-> hoursActive]]
                         /\ IF g # 0
                            THEN /\ Reject(t, g, stats)
                                 /\ UNCHANGED <<openPositions, venueCalls, order, lastClosed>>
                            ELSE /\ pc' = [pc EXCEPT ![t] = "preparing"]
                                 /\ venueCalls' = [venueCalls EXCEPT ![t] = {"balance"}]
                                 /\ statistics' = stats
                                 /\ UNCHANGED <<openPositions, reason, outcome, order,
                                                notified, lastClosed>>
              ELSE /\ closePosition(t, sig)
                   /\ statistics' = stats
                   /\ UNCHANGED <<reason, venueCalls, checked>>
  /\ UNCHANGED <<proc, call, config, closedPositions, today, orderSeq, plan, tick>>

\* handleSignal after the "signal ignored" message was sent (or failed to send).
IgnoredMsg(t) ==
  /\ pc[t] = "ignored_msg"
  /\ NoneDone
  /\ statistics' = Ignored(statistics, reason[t])
  /\ pc' = [pc EXCEPT ![t] = "done"]
  /\ UNCHANGED <<proc, call, config, openPositions, closedPositions, today, orderSeq, signal, reason,
                 outcome, venueCalls, order, notified, plan, tick, lastClosed, checked>>

\* A submission that registers the position at once, before the order returns.
Submit_registersFirst(t, positionParams) ==
  /\ pc' = [pc EXCEPT ![t] = "ordering"]
  /\ plan' = [plan EXCEPT ![t] = [entryPrice |-> positionParams.entryPrice,
                                  quantity |-> positionParams.quantity]]
  /\ order' = [order EXCEPT ![t] =
                 [kind |-> "open", symbol |-> signal[t].symbol,
                  side |-> IF signal[t].direction = "LONG" THEN "buy" ELSE "sell",
                  size |-> positionParams.quantity]]
  /\ openPositions' = addOpenPosition(openPositions, NewPosition(signal[t], positionParams))
  /\ UNCHANGED <<statistics, orderSeq, outcome, notified, lastClosed>>

\* openPosition, live: setLeverage (no request is sent), then the market
\* order is submitted; the position is registered when the order returns.
Submit(t, positionParams) ==
  /\ pc' = [pc EXCEPT ![t] = "ordering"]
  /\ plan' = [plan EXCEPT ![t] = [entryPrice |-> positionParams.entryPrice,
                                  quantity |-> positionParams.quantity]]
  /\ order' = [order EXCEPT ![t] =
                 [kind |-> "open", symbol |-> signal[t].symbol,
                  side |-> IF signal[t].direction = "LONG" THEN "buy" ELSE "sell",
                  size |-> positionParams.quantity]]
  /\ UNCHANGED <<openPositions, statistics, orderSeq, outcome, notified, lastClosed>>

\* validateSignal gates 8 and 9, then openPosition up to the fill: the balance
\* and contract fetches of the gates, the balance, price and contract fetches
\* of openPosition, sizing, and then either the simulated fill (dry run) or
\* the submission of the market order.
Prepare(t) ==
  /\ pc[t] = "preparing"
  /\ NoneDone
  /\ \E gateBalance \in BalanceResp :
       IF ~(gateBalance.ok /\ gateBalance.val > 0)
       THEN /\ Reject(t, 8, statistics)
            /\ UNCHANGED <<openPositions, orderSeq, venueCalls, order, plan, lastClosed>>
       ELSE \E gateInfo \in InfoResp :
       IF ~(gateInfo.ok /\ gateInfo.status = "Open")
       THEN /\ Reject(t, 9, statistics)
            /\ venueCalls' = [venueCalls EXCEPT ![t] = @ \cup {"info"}]
            /\ UNCHANGED <<openPositions, orderSeq, order, plan, lastClosed>>
       ELSE \E balance \in BalanceResp, currentPrice \in PriceResp, symbolInfo \in InfoResp :
       \E positionParams \in {Sizing(balance.val, currentPrice.val, signal[t].direction,
                                     symbolInfo)} :
           /\ venueCalls' = [venueCalls EXCEPT ![t] =
                 @ \cup {"info"} \cup (IF balance.ok THEN {"price"} ELSE {})]
           /\ UNCHANGED reason
           /\ IF ~(balance.ok /\ currentPrice.ok /\ symbolInfo.ok) \/ ~positionParams.ok
              THEN /\ Throw(t)
                   /\ UNCHANGED <<openPositions, statistics, orderSeq, order, plan, lastClosed>>
              ELSE IF config.dryRun
              THEN /\ Register(t, positionParams)
                   /\ UNCHANGED <<order, plan, notified>>
              ELSE Submit(t, positionParams)
  /\ UNCHANGED <<proc, call, config, closedPositions, today, signal, tick, checked>>

\* openPosition: openMarketOrder returns or throws.
OrderResult(t) ==
  /\ pc[t] = "ordering"
  /\ NoneDone
  /\ \E placed \in BOOLEAN :
       IF placed
       THEN /\ Register(t, plan[t])
            /\ UNCHANGED notified
       ELSE /\ Throw(t)
            /\ UNCHANGED <<openPositions, statistics, orderSeq, lastClosed>>
  /\ plan' = [plan EXCEPT ![t] = NoPlan]
  /\ UNCHANGED <<proc, call, config, closedPositions, today, signal, reason, venueCalls, order, tick,
                 checked>>

\* closePosition (live): closeMarketOrder returns or throws.
CloseResult(t) ==
  /\ pc[t] = "closing"
  /\ NoneDone
  /\ \E placed \in BOOLEAN :
       IF placed
       THEN /\ pc' = [pc EXCEPT ![t] = "done"]
            /\ outcome' = [outcome EXCEPT ![t] = "closed"]
            /\ lastClosed' = lastClosed \cup {signal[t].symbol}
            /\ UNCHANGED notified
       ELSE /\ Throw(t)
            /\ UNCHANGED lastClosed
  /\ UNCHANGED <<proc, call, config, openPositions, closedPositions, statistics, today, orderSeq, signal,
                 reason, venueCalls, order, plan, tick, checked>>

\* the error notification was sent (or failed to send); handleSignal returns.
ErrorMsg(t) ==
  /\ pc[t] = "error_msg"
  /\ NoneDone
  /\ pc' = [pc EXCEPT ![t] = "done"]
  /\ UNCHANGED <<proc, call, config, openPositions, closedPositions, statistics, today, orderSeq, signal,
                 reason, outcome, venueCalls, order, notified, plan, tick, lastClosed, checked>>

\* handleChannelMessage resumes behind "await callback(signal)" and returns.
Return(t) ==
  /\ pc[t] = "done"
  /\ pc' = [pc EXCEPT ![t] = "idle"]
  /\ signal' = [signal EXCEPT ![t] = NoSignal]
  /\ reason' = [reason EXCEPT ![t] = 0]
  /\ outcome' = [outcome EXCEPT ![t] = "none"]
  /\ venueCalls' = [venueCalls EXCEPT ![t] = {}]
  /\ order' = [order EXCEPT ![t] = NoOrder]
  /\ notified' = [notified EXCEPT ![t] = "none"]
  /\ checked' = [checked EXCEPT ![t] = NotChecked]
  /\ UNCHANGED <<proc, call, config, ledgerVars, today, plan, tick>>

\* ---- reconciliation (PositionService.checkPositions) -----------------------
\* The checkPositions calls in flight.  The calls have no identity, so they
\* are kept in a fixed order: by the position each holds and how far it is.
TickKey(r) ==
  4 * r.tracked.orderId + (IF r.pc = "history" THEN 2 ELSE 0) + (IF r.caught THEN 1 ELSE 0)

TickLess(a, b) == TickKey(a) < TickKey(b)

\* The loop is at entry e; caught: the entry before it threw, which was logged.
Visit(e, caught) == [pc |-> "positions", tracked |-> e, caught |-> caught]

IsAfter(slot, e) == e.slot > slot

Without(q, k) == [i \in 1..(Len(q) - 1) |-> IF i < k THEN q[i] ELSE q[i + 1]]

\* The Map iterator is live: its next entry is the first one, in insertion
\* order, behind the entry it visited last, in the Map as it is now.  With
\* no entry left the loop, and the call, end.
NextEntry(q, k, m, caught) ==
  LET later == SelectSeq(m, LAMBDA e : IsAfter(q[k].tracked.slot, e))
  IN  IF later = <<>>
      THEN Without(q, k)
      ELSE SortSeq([q EXCEPT ![k] = Visit(Head(later), caught)], TickLess)

\* setInterval fires checkPositions; an empty ledger returns at once.
TickStart ==
  /\ NoneDone
  /\ Len(tick) < NumTicks
  /\ Len(openPositions) # 0
  /\ tick' = SortSeq(Append(tick, Visit(Head(openPositions), FALSE)), TickLess)
  /\ UNCHANGED <<proc, call, config, ledgerVars, today, taskVars>>

\* A loop that a failed position query ends.
TickPositions_errorEndsTick(k) ==
  /\ k <= Len(tick)
  /\ tick[k].pc = "positions"
  /\ NoneDone
  /\ \E resp \in PositionsResp :
       IF resp = "zero"
       THEN tick' = SortSeq([tick EXCEPT ![k].pc = "history"], TickLess)
       ELSE IF resp = "error"
       THEN tick' = Without(tick, k)
       ELSE tick' = NextEntry(tick, k, openPositions, FALSE)
  /\ UNCHANGED <<proc, call, config, ledgerVars, today, taskVars>>

\* A refresh that writes the venue's size into the tracked entry.
TickPositions_refreshRewrites(k) ==
  /\ k <= Len(tick)
  /\ tick[k].pc = "positions"
  /\ NoneDone
  /\ \E resp \in PositionsResp :
       IF resp = "zero"
       THEN /\ tick' = SortSeq([tick EXCEPT ![k].pc = "history"], TickLess)
            /\ UNCHANGED openPositions
       ELSE /\ tick' = NextEntry(tick, k, openPositions, resp = "error")
            /\ openPositions' =
                 IF resp = "nonzero"
                 THEN [i \in 1..Len(openPositions) |->
                         IF openPositions[i].symbol = tick[k].tracked.symbol
                         THEN [openPositions[i] EXCEPT !.quantity = @ + 1]
                         ELSE openPositions[i]]
                 ELSE openPositions
  /\ UNCHANGED <<proc, call, config, closedPositions, statistics, orderSeq, lastClosed, today, taskVars>>

\* checkPositions, after getOpenPositions(symbol) returned resp or threw
PositionsResult(k, resp) ==
  /\ k <= Len(tick)
  /\ tick[k].pc = "positions"
  /\ NoneDone
  /\ IF resp = "zero"
     THEN tick' = SortSeq([tick EXCEPT ![k].pc = "history"], TickLess)
     ELSE tick' = NextEntry(tick, k, openPositions, resp = "error")
  /\ UNCHANGED <<proc, call, config, ledgerVars, today, taskVars>>

\* getOpenPositions(symbol) returns or throws.
TickPositions(k) == \E resp \in PositionsResp : PositionsResult(k, resp)

\* utils/helpers.js: realized profit of a position closed at exitPrice
calculatePnL(entryPrice, exitPrice, quantity, direction) ==
  IF direction = "LONG"
  THEN (exitPrice - entryPrice) * quantity
  ELSE (entryPrice - exitPrice) * quantity

\* utils/helpers.js: the same move in whole percent of the entry price
calculatePnLPercent(entryPrice, exitPrice, direction) ==
  IF direction = "LONG"
  THEN ((exitPrice - entryPrice) * 100) \div entryPrice
  ELSE ((entryPrice - exitPrice) * 100) \div entryPrice

\* closedPositions.reduce((sum, p) => sum + p.pnl, 0)
RECURSIVE SumOfPnl(_)
SumOfPnl(h) == IF h = <<>> THEN 0 ELSE SumOfPnl(SubSeq(h, 1, Len(h) - 1)) + h[Len(h)].pnl

\* trades.find: a fill of the symbol on the closing side of the position
CloseTrade(trades, trackedPosition) ==
  \/ trades.side = "sell" /\ trackedPosition.direction = "LONG"
  \/ trades.side = "buy" /\ trackedPosition.direction = "SHORT"

\* An exit price that is 0 without a closing fill.
ExitPrice_fillOrZero(trades, trackedPosition) ==
  IF CloseTrade(trades, trackedPosition) THEN trades.price ELSE 0

ExitPrice(trades, trackedPosition) ==
  IF CloseTrade(trades, trackedPosition) THEN trades.price ELSE trackedPosition.entryPrice

\* closedPositionData; closeTrade records whether a closing fill was found
ClosedRecord(trackedPosition, trades) ==
  LET exitPrice == ExitPrice(trades, trackedPosition) IN
  [symbol |-> trackedPosition.symbol, direction |-> trackedPosition.direction,
   entryPrice |-> trackedPosition.entryPrice, quantity |-> trackedPosition.quantity,
   orderId |-> trackedPosition.orderId, exitPrice |-> exitPrice,
   pnl |-> calculatePnL(trackedPosition.entryPrice, exitPrice, trackedPosition.quantity,
                        trackedPosition.direction),
   pnlPercent |-> calculatePnLPercent(trackedPosition.entryPrice, exitPrice,
                                      trackedPosition.direction),
   closeTrade |-> CloseTrade(trades, trackedPosition)]

\* A handlePositionClosed that records the close and keeps the entry.
TickHistory_keepsEntry(k) ==
  /\ k <= Len(tick)
  /\ tick[k].pc = "history"
  /\ NoneDone
  /\ \E trades \in HistoryResp :
       IF ~trades.ok
       THEN /\ tick' = NextEntry(tick, k, openPositions, TRUE)
            /\ UNCHANGED closedPositions
       ELSE /\ closedPositions' =
                 addClosedPosition(closedPositions, ClosedRecord(tick[k].tracked, trades))
            /\ tick' = NextEntry(tick, k, openPositions, FALSE)
  /\ UNCHANGED <<proc, call, config, openPositions, statistics, orderSeq, lastClosed, today, taskVars>>

\* handlePositionClosed, after getTradeHistory returned trades or threw
HistoryResult(k, trades) ==
  /\ k <= Len(tick)
  /\ tick[k].pc = "history"
  /\ NoneDone
  /\ IF ~trades.ok
     THEN /\ tick' = NextEntry(tick, k, openPositions, TRUE)
          /\ UNCHANGED <<openPositions, closedPositions>>
     ELSE LET trackedPosition == tick[k].tracked
          IN  /\ closedPositions' =
                   addClosedPosition(closedPositions, ClosedRecord(trackedPosition, trades))
              /\ openPositions' = removeOpenPosition(openPositions, trackedPosition.symbol)
              /\ tick' = NextEntry(tick, k, openPositions', FALSE)
  /\ UNCHANGED <<proc, call, config, statistics, orderSeq, lastClosed, today, taskVars>>

\* handlePositionClosed: getTradeHistory returns or throws.
TickHistory(k) == \E trades \in HistoryResp : HistoryResult(k, trades)

\* ---- the calendar ----------------------------------------------------------
NextDay ==
  /\ NoneDone
  /\ today < MaxDay
  /\ today' = today + 1
  /\ statistics' = [statistics EXCEPT !.countsOld = statistics.dailyTrades > 0]
  /\ UNCHANGED <<proc, call, config, openPositions, closedPositions, orderSeq, lastClosed, taskVars, tick>>

\* A daily reset that also drops the open positions.
SendDailyReport_clearsLedger ==
  /\ NoneDone
  /\ today # statistics.lastResetDate
  /\ statistics' = [statistics EXCEPT !.dailyTrades = 0, !.signalsIgnored = 0,
                                      !.lastResetDate = today, !.countsOld = FALSE]
  /\ closedPositions' = <<>>
  /\ openPositions' = <<>>
  /\ UNCHANGED <<proc, call, config, orderSeq, lastClosed, today, taskVars, tick>>

\* sendDailyReport on a new date: reset the day counters and the history.
SendDailyReport ==
  /\ NoneDone
  /\ today # statistics.lastResetDate
  /\ statistics' = [statistics EXCEPT !.dailyTrades = 0, !.signalsIgnored = 0,
                                      !.lastResetDate = today, !.countsOld = FALSE]
  /\ closedPositions' = <<>>
  /\ UNCHANGED <<proc, call, config, openPositions, orderSeq, lastClosed, today, taskVars, tick>>

Next ==
  \/ \E t \in Tasks : Deliver(t)
  \/ \E t \in Tasks : IgnoredMsg(t)
  \/ \E t \in Tasks : Prepare(t)
  \/ \E t \in Tasks : OrderResult(t)
  \/ \E t \in Tasks : CloseResult(t)
  \/ \E t \in Tasks : ErrorMsg(t)
  \/ \E t \in Tasks : Return(t)
  \/ TickStart
  \/ \E k \in Ticks : TickPositions(k)
  \/ \E k \in Ticks : TickHistory(k)
  \/ NextDay
  \/ SendDailyReport

Spec == Init /\ [][Next]_vars

\* ---- reconciliation while the venue reports no position and answers ----------
\* One handler at a time; every getOpenPositions returns size zero and every
\* getTradeHistory returns.  The timer keeps firing (setInterval,
\* position.service.js:104), and every network call a handler or a tick
\* awaits returns: these steps are taken when they stay possible.  A post to
\* the channel may or may not come.
ZeroReported(k) == PositionsResult(k, "zero")

HistoryReturned(k) == \E trades \in {r \in HistoryResp : r.ok} : HistoryResult(k, trades)

HandlerStep ==
  \/ IgnoredMsg(1)
  \/ Prepare(1)
  \/ OrderResult(1)
  \/ CloseResult(1)
  \/ ErrorMsg(1)
  \/ Return(1)

TickStep == \E k \in Ticks : ZeroReported(k) \/ HistoryReturned(k)

ReconNext ==
  \/ Deliver(1)
  \/ HandlerStep
  \/ TickStart
  \/ TickStep

Recon ==
  /\ Init
  /\ [][ReconNext]_vars
  /\ WF_vars(HandlerStep)
  /\ WF_vars(TickStart)
  /\ WF_vars(TickStep)

\* ---- the functions of the program, applied to arguments of their own --------
\* A numeral is the decimal n / 10^d the program reads from the venue, the
\* channel or its environment; d = -1 is a text that is no number.
NumberOf(numeral) == IF numeral.d < 0 THEN NaN ELSE Dec[numeral.n, numeral.d]

BalanceArgs ==
  {[n |-> 0, d |-> -1], [n |-> -5, d |-> 0], [n |-> 0, d |-> 0], [n |-> 1, d |-> 0],
   [n |-> 50, d |-> 0], [n |-> 100, d |-> 0], [n |-> 1000, d |-> 0]}
PriceArgs ==
  {[n |-> 0, d |-> -1], [n |-> 0, d |-> 0], [n |-> 1, d |-> 1], [n |-> 3, d |-> 0],
   [n |-> 10, d |-> 0], [n |-> 2000, d |-> 0]}
\* the multiplier of the contract: absent (0), 1, 0.1, 0.01
MultiplierArgs ==
  {[n |-> 0, d |-> 0], [n |-> 1, d |-> 0], [n |-> 1, d |-> 1], [n |-> 1, d |-> 2]}
\* minOrderQty and maxOrderQty of the contract: absent (0), or 2 and 10
LimitArgs == {[min |-> 0, max |-> 0], [min |-> 2, max |-> 10]}
DirectionArgs == Directions \cup {""}

CallInit ==
  /\ Init
  /\ config.dryRun

\* riskService.calculatePositionParameters(balance, entryPrice, direction, symbolInfo)
SizePosition ==
  /\ call = NoCall
  /\ \E balance \in BalanceArgs, entryPrice \in PriceArgs, direction \in DirectionArgs,
        multiplier \in MultiplierArgs, limits \in LimitArgs :
       \E result \in {calculatePositionParameters(
                         b, p, direction,
                         [multiplier |-> m, minOrderQty |-> limits.min,
                          maxOrderQty |-> limits.max]) :
                        b \in {NumberOf(balance)}, p \in {NumberOf(entryPrice)},
                        m \in {NumberOf(multiplier)}} :
         call' = [op |-> "calculatePositionParameters",
                  balance |-> balance, entryPrice |-> entryPrice, direction |-> direction,
                  multiplier |-> multiplier, limits |-> limits, result |-> result]
  /\ UNCHANGED <<proc, config, today, tick, ledgerVars, taskVars>>

\* the caller has the result
Returned ==
  /\ call # NoCall
  /\ call' = NoCall
  /\ UNCHANGED <<proc, config, today, tick, ledgerVars, taskVars>>

\* ---- the parser of the channel's alerts (src/services/telegram.service.js) ------
\* (the Russian labels are written in Latin letters here)
\* A text is a sequence of pieces; a piece is a label with its value, or a
\* pictograph, and units holds the UTF-16 code units of its pictographs (its
\* letters and digits are no surrogates and are left out).
Siren == <<55357, 57000>>         \* the alarm light, U+1F6A8
PointRight == <<55357, 56393>>    \* the hand pointing right, U+1F449
PointLeft == <<55357, 56392>>     \* the hand pointing left, U+1F448
Red == <<55357, 56628>>           \* the red circle, U+1F534
Green == <<55357, 57314>>         \* the green circle, U+1F7E2
Scales == <<9878, 65039>>         \* the scales, U+2696 U+FE0F

Piece(label, value, units) == [label |-> label, value |-> value, units |-> units]

\* "<siren> KuCoin - 3%", or without the percentage (value 0)
AlertPieces == {Piece("KuCoin", spread, Siren) : spread \in {0, 3}}
\* "<hand>AUSDTM<hand>", or the two hands with nothing between them
SymbolPieces == {Piece("symbol", s, PointRight \o PointLeft) : s \in {"AUSDTM", ""}}
MarkerPieces == {<<>>, <<Piece("", 0, Red)>>, <<Piece("", 0, Green)>>}
\* no last price, one under either label (above the fair price, or below it),
\* or one under each label, in both orders
LastPieces ==
  {<<>>, <<Piece("Last:", 5, <<>>)>>, <<Piece("Last:", 3, <<>>)>>,
   <<Piece("Poslednyaya tsena:", 5, <<>>)>>,
   <<Piece("Last:", 5, <<>>), Piece("Poslednyaya tsena:", 6, <<>>)>>,
   <<Piece("Poslednyaya tsena:", 6, <<>>), Piece("Last:", 5, <<>>)>>}
MarkPieces ==
  {<<>>, <<Piece("Mark:", 4, Scales)>>, <<Piece("Spravedlivaya:", 4, Scales)>>,
   <<Piece("Mark:", 4, Scales), Piece("Spravedlivaya:", 7, Scales)>>,
   <<Piece("Spravedlivaya:", 7, Scales), Piece("Mark:", 4, Scales)>>}

\* the texts of the shape of an alert: the marker before the price, or first
Texts ==
  {<<alert, symbol>> \o marker \o last \o mark :
     alert \in AlertPieces, symbol \in SymbolPieces, marker \in MarkerPieces,
     last \in LastPieces, mark \in MarkPieces}
  \cup {marker \o <<alert, symbol>> \o last \o mark :
          alert \in AlertPieces, symbol \in SymbolPieces, marker \in MarkerPieces,
          last \in LastPieces, mark \in MarkPieces}

\* the text as the string it is: its UTF-16 code units
RECURSIVE CodeUnits(_)
CodeUnits(text) == IF text = <<>> THEN <<>> ELSE Head(text).units \o CodeUnits(Tail(text))

\* text.match(/label\s*([\d.]+)/): the first piece with the label, or none
Labelled(text, label) ==
  LET found == {i \in 1..Len(text) : text[i].label = label}
  IN  IF found = {} THEN <<>> ELSE <<text[CHOOSE i \in found : \A j \in found : i <= j]>>

\* string.match(/[...]/) without the u flag: the first code unit of the string
\* that is a code unit of the class, or null
MatchClass(units, class) ==
  LET found == {i \in 1..Len(units) : units[i] \in class}
  IN  IF found = {} THEN <<>> ELSE <<units[CHOOSE i \in found : \A j \in found : i <= j]>>

\* the code units of the pattern /[<red><green>]/
MarkerClass == {Red[i] : i \in 1..Len(Red)} \cup {Green[i] : i \in 1..Len(Green)}

Null == [type |-> "null"]

\* isSignalMessage: isEntry
isEntry(text) ==
  /\ Labelled(text, "KuCoin") # <<>>
  /\ \E i \in 1..Len(text) : text[i].units # <<>> /\ text[i].label = "symbol"

\* _parseEntrySignal with the direction of a marker it does not know set to SHORT
parseEntrySignal_unknownIsShort(text) ==
  LET symbolMatch == Labelled(text, "symbol")
      lastPriceMatch == IF Labelled(text, "Last:") # <<>> THEN Labelled(text, "Last:")
                        ELSE Labelled(text, "Poslednyaya tsena:")
      markPriceMatch == IF Labelled(text, "Mark:") # <<>> THEN Labelled(text, "Mark:")
                        ELSE Labelled(text, "Spravedlivaya:")
      emoji == MatchClass(CodeUnits(text), MarkerClass)
  IN  IF symbolMatch = <<>> \/ symbolMatch[1].value = "" THEN Null
      ELSE IF lastPriceMatch = <<>> THEN Null
      ELSE IF markPriceMatch = <<>> THEN Null
      ELSE IF emoji = <<>> THEN Null
      ELSE [type |-> "OPEN", symbol |-> symbolMatch[1].value,
            direction |-> IF emoji = Red THEN "LONG" ELSE "SHORT",
            lastPrice |-> lastPriceMatch[1].value, fairPrice |-> markPriceMatch[1].value,
            spread |-> Labelled(text, "KuCoin")[1].value, emoji |-> emoji]

\* TelegramService._parseEntrySignal
parseEntrySignal(text) ==
  LET symbolMatch == Labelled(text, "symbol")
      lastPriceMatch == IF Labelled(text, "Last:") # <<>> THEN Labelled(text, "Last:")
                        ELSE Labelled(text, "Poslednyaya tsena:")
      markPriceMatch == IF Labelled(text, "Mark:") # <<>> THEN Labelled(text, "Mark:")
                        ELSE Labelled(text, "Spravedlivaya:")
      emoji == MatchClass(CodeUnits(text), MarkerClass)
  IN  IF symbolMatch = <<>> \/ symbolMatch[1].value = "" THEN Null
      ELSE IF lastPriceMatch = <<>> THEN Null
      ELSE IF markPriceMatch = <<>> THEN Null
      ELSE IF emoji = <<>> THEN Null
      ELSE IF emoji # Red /\ emoji # Green THEN Null
      ELSE [type |-> "OPEN", symbol |-> symbolMatch[1].value,
            direction |-> IF emoji = Red THEN "LONG" ELSE "SHORT",
            lastPrice |-> lastPriceMatch[1].value, fairPrice |-> markPriceMatch[1].value,
            spread |-> Labelled(text, "KuCoin")[1].value, emoji |-> emoji]

\* telegramService._parseEntrySignal(text)
ParseEntry ==
  /\ call = NoCall
  /\ \E text \in Texts :
       call' = [op |-> "parseEntrySignal", text |-> text, result |-> parseEntrySignal(text)]
  /\ UNCHANGED <<proc, config, today, tick, ledgerVars, taskVars>>

\* ---- the parser of the closing alerts (TelegramService._parseExitSignal) ------
\* A closing text is a sequence of tokens: the check mark, a blank, a line
\* break, a dash, a colon, a word of Latin letters and digits, and the two
\* Russian words of the alert, "Tseny" and "sravnyalis" (written in Latin
\* letters here; in the text they are Cyrillic and match no [A-Z0-9]).
ExitWords == {"AUSDTM", "BUSDTM"}
Blanks == {" ", "\n"}
Clock == {1, 2}

ExitTexts ==
  UNION {{<<"check", " ", w, " ", "-", " ", "Tseny", " ", "sravnyalis">>,
          <<"check", " ", w, " ", "-", " ", "sravnyalis">>,
          <<"check", " ", w, " ", "sravnyalis">>,
          <<"check", w, "-", "sravnyalis">>,
          <<"check", w, "sravnyalis">>,
          <<"check", " ", w, ":", " ", "sravnyalis">>,
          <<"check", " ", w, "\n", "sravnyalis">>,
          <<w, "\n", "Tseny", " ", "sravnyalis">>,
          <<"check", " ", w, " ", "-", " ", "Tseny">>} : w \in ExitWords}
  \cup {<<v, " ", "check", " ", w, " ", "-", " ", "Tseny", " ", "sravnyalis">> :
          v \in ExitWords, w \in ExitWords}
  \cup {<<v, ":", " ", "check", " ", w, " ", "sravnyalis">> : v \in ExitWords, w \in ExitWords}
  \cup {<<"check", " ", "Tseny", " ", "sravnyalis">>, <<"check", " ", "sravnyalis">>,
         <<"Tseny", " ", "sravnyalis">>}

At(text, i) == IF i \in 1..Len(text) THEN text[i] ELSE "end"

\* \s* from position i: the first position at or after i that holds no blank
Skip(text, i) ==
  CHOOSE j \in i..(Len(text) + 1) :
    /\ At(text, j) \notin Blanks
    /\ \A k \in i..(j - 1) : text[k] \in Blanks

\* /<check>\s*([A-Z0-9]+)\s*-\s*Tseny\s+sravnyalis/i at position i
WithDashAndPrices(text, i) ==
  LET w == Skip(text, i + 1)
      dash == Skip(text, w + 1)
      prices == Skip(text, dash + 1)
      equal == Skip(text, prices + 1)
  IN  IF /\ At(text, i) = "check" /\ At(text, w) \in ExitWords /\ At(text, dash) = "-"
         /\ At(text, prices) = "Tseny" /\ equal > prices + 1 /\ At(text, equal) = "sravnyalis"
      THEN <<text[w]>> ELSE <<>>

\* /<check>\s*([A-Z0-9]+)\s*-\s*sravnyalis/i at position i
WithDash(text, i) ==
  LET w == Skip(text, i + 1)
      dash == Skip(text, w + 1)
      equal == Skip(text, dash + 1)
  IN  IF /\ At(text, i) = "check" /\ At(text, w) \in ExitWords /\ At(text, dash) = "-"
         /\ At(text, equal) = "sravnyalis"
      THEN <<text[w]>> ELSE <<>>

\* /<check>\s*([A-Z0-9]+)\s+sravnyalis/i at position i
WithBlank(text, i) ==
  LET w == Skip(text, i + 1)
      equal == Skip(text, w + 1)
  IN  IF /\ At(text, i) = "check" /\ At(text, w) \in ExitWords /\ equal > w + 1
         /\ At(text, equal) = "sravnyalis"
      THEN <<text[w]>> ELSE <<>>

\* /([A-Z0-9]+).*?sravnyalis/i at position i: a word, and the Russian word
\* after it on the same line
AnyWordBefore(text, i) ==
  IF /\ At(text, i) \in ExitWords
     /\ \E j \in (i + 1)..Len(text) :
          text[j] = "sravnyalis" /\ \A k \in (i + 1)..(j - 1) : text[k] # "\n"
  THEN <<text[i]>> ELSE <<>>

\* the four patterns of _parseExitSignal, in the order it tries them
ExitPattern(n, text, i) ==
  CASE n = 1 -> WithDashAndPrices(text, i)
    [] n = 2 -> WithDash(text, i)
    [] n = 3 -> WithBlank(text, i)
    [] n = 4 -> AnyWordBefore(text, i)

\* text.match(pattern n): the symbol its leftmost match captures, or none
Leftmost(text, n) ==
  LET found == {i \in 1..Len(text) : ExitPattern(n, text, i) # <<>>}
  IN  IF found = {} THEN <<>>
      ELSE ExitPattern(n, text, CHOOSE i \in found : \A j \in found : i <= j)

Close(symbolMatch, now) ==
  IF symbolMatch = <<>> THEN Null
  ELSE [type |-> "CLOSE", symbol |-> symbolMatch[1], timestamp |-> now]

\* _parseExitSignal with the fallback pattern tried first
parseExitSignal_fallbackFirst(text, now) ==
  Close(IF Leftmost(text, 4) # <<>> THEN Leftmost(text, 4)
        ELSE IF Leftmost(text, 1) # <<>> THEN Leftmost(text, 1)
        ELSE IF Leftmost(text, 2) # <<>> THEN Leftmost(text, 2)
        ELSE Leftmost(text, 3), now)

\* TelegramService._parseExitSignal, called at the time now
parseExitSignal(text, now) ==
  Close(IF Leftmost(text, 1) # <<>> THEN Leftmost(text, 1)
        ELSE IF Leftmost(text, 2) # <<>> THEN Leftmost(text, 2)
        ELSE IF Leftmost(text, 3) # <<>> THEN Leftmost(text, 3)
        ELSE Leftmost(text, 4), now)

\* text.includes('sravnyalis'): isExit of isSignalMessage, and the test of parseSignal
isExit(text) == \E i \in 1..Len(text) : text[i] = "sravnyalis"

\* handleChannelMessage on a closing text: the callbacks are called with the
\* signal, or the text is no signal message, or its signal is null
HandleClosingText ==
  /\ call = NoCall
  /\ \E text \in ExitTexts, now \in Clock :
       \E parsed \in {IF isExit(text) THEN parseExitSignal(text, now) ELSE Null} :
         call' = [op |-> "handleChannelMessage", text |-> text, now |-> now,
                  signal |-> parsed,
                  dispatched |-> IF isExit(text) /\ parsed # Null THEN <<parsed>> ELSE <<>>]
  /\ UNCHANGED <<proc, config, today, tick, ledgerVars, taskVars>>

CallNext ==
  \/ SizePosition
  \/ ParseEntry
  \/ HandleClosingText
  \/ Returned

Calls == CallInit /\ [][CallNext]_vars

\* ---- the methods of PositionService, called on a ledger of their own -----------
MaxHistory == 3

\* getStatistics with a win counted only for a profit above zero
getStatistics_profitOnly ==
  LET totalTrades == Len(closedPositions)
      winTrades == Cardinality({i \in 1..Len(closedPositions) : closedPositions[i].pnl > 0})
  IN  [totalTrades |-> totalTrades, winTrades |-> winTrades,
       loseTrades |-> totalTrades - winTrades, totalPnl |-> SumOfPnl(closedPositions),
       openPositions |-> Len(openPositions), closedPositions |-> totalTrades]

getStatistics ==
  LET totalTrades == Len(closedPositions)
      winTrades == Cardinality({i \in 1..Len(closedPositions) : closedPositions[i].pnl >= 0})
  IN  [totalTrades |-> totalTrades, winTrades |-> winTrades,
       loseTrades |-> totalTrades - winTrades, totalPnl |-> SumOfPnl(closedPositions),
       openPositions |-> Len(openPositions), closedPositions |-> totalTrades]

\* the closes handlePositionClosed records: of a LONG or a SHORT, at a loss, at
\* a profit, or without a fill
ClosedArgs ==
  {ClosedRecord([symbol |-> s, direction |-> DirectionOf(s), entryPrice |-> 7,
                 quantity |-> 9, orderId |-> 1, slot |-> 1], trades) :
     s \in Symbols, trades \in HistoryResp}

\* positionService.addClosedPosition(positionData)
AddClosedPosition ==
  /\ call = NoCall
  /\ Len(closedPositions) < MaxHistory
  /\ \E positionData \in ClosedArgs :
       closedPositions' = addClosedPosition(closedPositions, positionData)
  /\ call' = [op |-> "addClosedPosition"]
  /\ UNCHANGED <<proc, config, openPositions, statistics, orderSeq, lastClosed, today, tick,
                 taskVars>>

\* positionService.getStatistics()
GetStatistics ==
  /\ call = NoCall
  /\ call' = [op |-> "getStatistics", result |-> getStatistics]
  /\ UNCHANGED <<proc, config, today, tick, ledgerVars, taskVars>>

\* positionService.resetDailyStatistics()
ResetDailyStatistics ==
  /\ call = NoCall
  /\ closedPositions' = <<>>
  /\ call' = [op |-> "resetDailyStatistics"]
  /\ UNCHANGED <<proc, config, openPositions, statistics, orderSeq, lastClosed, today, tick,
                 taskVars>>

\* sendDailyReport: on a new date the day counters and the history are reset,
\* and then the report is built from positionService.getStatistics(); before
\* is the history as the call found it
SendReport ==
  /\ call = NoCall
  /\ IF today # statistics.lastResetDate
     THEN /\ statistics' = [statistics EXCEPT !.dailyTrades = 0, !.signalsIgnored = 0,
                                              !.lastResetDate = today, !.countsOld = FALSE]
          /\ closedPositions' = <<>>
     ELSE UNCHANGED <<statistics, closedPositions>>
  /\ UNCHANGED <<proc, config, openPositions, orderSeq, lastClosed, today, tick, taskVars>>
  /\ call' = [op |-> "sendDailyReport", changed |-> today # statistics.lastResetDate,
              before |-> closedPositions, report |-> getStatistics']

LedgerNext ==
  \/ AddClosedPosition
  \/ GetStatistics
  \/ ResetDailyStatistics
  \/ NextDay
  \/ SendReport
  \/ Returned

Ledger == CallInit /\ [][LedgerNext]_vars

\* ---- validateSignal, called on signals of its own --------------------------------
\* config.risk.minSpreadPercent: 0 stands for a minimum that is not set
MinSpreadArgs == {-1, 0, 2}
\* signal.spread: 0 stands for a spread that is absent (null)
SpreadArgs == {0, 1, 2, 3}

GateInit ==
  /\ config \in [dryRun : BOOLEAN, minSpreadPercent : MinSpreadArgs]
  /\ Constructed
  /\ proc = Running

\* validateSignal(signal), up to its first network call
ValidateSignal ==
  /\ call = NoCall
  /\ \E symbol \in Symbols, direction \in DirectionArgs, spread \in SpreadArgs,
        blocked \in BOOLEAN, hoursActive \in BOOLEAN :
       call' = [op |-> "validateSignal", symbol |-> symbol, direction |-> direction,
                spread |-> spread, blocked |-> blocked, hoursActive |-> hoursActive,
                result |-> LocalGate([type |-> "OPEN", symbol |-> symbol,
                                      direction |-> direction],
                                     spread, blocked, hoursActive)]
  /\ UNCHANGED <<proc, config, today, tick, ledgerVars, taskVars>>

GateNext ==
  \/ ValidateSignal
  \/ Returned

Gates == GateInit /\ [][GateNext]_vars

\* ---- the life of the process (src/config/settings.js: initialize, the signal
\* handlers of the process; telegram.service.js: handleChannelMessage) -----------
MaxMessages == 2
MaxTicks == 2

\* the process as loaded: the Telegram bot polls, no callback is registered, no
\* timer is set, initialize awaits kucoinService.connect()
Starting ==
  [init |-> "connecting", shutdown |-> "none", exited |-> FALSE, status |-> 0,
   callbacks |-> 0, monitoring |-> FALSE, handler |-> "idle", escaped |-> FALSE,
   arrived |-> 0, dispatched |-> 0, ticks |-> 0, failures |-> 0]

LifeInit ==
  /\ config \in [dryRun : BOOLEAN, minSpreadPercent : MinSpreadChoices]
  /\ Constructed
  /\ proc = Starting

Alive == ~proc.exited

\* process.exit(status)
Exit(p, status) == [p EXCEPT !.exited = TRUE, !.status = status]

\* initialize: kucoinService.connect() has settled
ConnectResult ==
  /\ Alive
  /\ proc.init = "connecting"
  /\ \E connected \in BOOLEAN :
       proc' = IF connected THEN [proc EXCEPT !.init = "balance"]
               ELSE Exit([proc EXCEPT !.init = "connect_failed"], 1)
  /\ UNCHANGED <<call, config, today, tick, ledgerVars, taskVars>>

\* initialize: getUSDTBalance has settled; then onSignal(handleSignal),
\* startMonitoring and, live, the notification of the start
BalanceResult ==
  /\ Alive
  /\ proc.init = "balance"
  /\ \E fetched \in BOOLEAN :
       proc' = IF fetched
               THEN [proc EXCEPT !.callbacks = @ + 1, !.monitoring = TRUE,
                                 !.init = IF config.dryRun THEN "done" ELSE "announcing"]
               ELSE Exit([proc EXCEPT !.init = "balance_failed"], 1)
  /\ UNCHANGED <<call, config, today, tick, ledgerVars, taskVars>>

\* initialize: the notification of the start has settled
AnnounceResult ==
  /\ Alive
  /\ proc.init = "announcing"
  /\ \E sent \in BOOLEAN :
       proc' = IF sent THEN [proc EXCEPT !.init = "done"]
               ELSE Exit([proc EXCEPT !.init = "announce_failed"], 1)
  /\ UNCHANGED <<call, config, today, tick, ledgerVars, taskVars>>

\* A channel post whose signal is handed to handleSignal whether or not it is
\* registered.
Arrive_unregistered ==
  /\ Alive
  /\ proc.arrived < MaxMessages
  /\ proc.handler = "idle"
  /\ proc' = [proc EXCEPT !.arrived = @ + 1, !.dispatched = @ + 1, !.handler = "processing"]
  /\ UNCHANGED <<call, config, today, tick, ledgerVars, taskVars>>

\* a channel post with a signal: handleChannelMessage calls the callbacks
\* registered (one signal at a time here; Spec has the handlers overlap)
Arrive ==
  /\ Alive
  /\ proc.arrived < MaxMessages
  /\ proc.handler = "idle"
  /\ proc' = IF proc.callbacks = 0 THEN [proc EXCEPT !.arrived = @ + 1]
             ELSE [proc EXCEPT !.arrived = @ + 1, !.dispatched = @ + 1,
                               !.handler = "processing"]
  /\ UNCHANGED <<call, config, today, tick, ledgerVars, taskVars>>

\* handleSignal: its try block has ended: the signal was handled, the
\* validation rejected it, or an error was thrown and caught
HandleResult ==
  /\ Alive
  /\ proc.handler = "processing"
  /\ \E result \in {"handled", "rejected", "error"} :
       proc' = IF result = "handled" THEN [proc EXCEPT !.handler = "idle"]
               ELSE IF result = "rejected"
               THEN [proc EXCEPT !.handler = IF config.dryRun THEN "idle" ELSE "ignored_msg"]
               ELSE [proc EXCEPT !.failures = @ + 1,
                                 !.handler = IF config.dryRun THEN "idle" ELSE "error_msg"]
  /\ UNCHANGED <<call, config, today, tick, ledgerVars, taskVars>>

\* A notification whose failure leaves handleSignal.
NoticeResult_rethrows ==
  /\ Alive
  /\ proc.handler \in {"ignored_msg", "error_msg"}
  /\ \E sent \in BOOLEAN :
       proc' = IF sent THEN [proc EXCEPT !.handler = "idle"]
               ELSE [proc EXCEPT !.handler = "idle", !.failures = @ + 1, !.escaped = TRUE]
  /\ UNCHANGED <<call, config, today, tick, ledgerVars, taskVars>>

\* handleSignal: the notification of the rejection or of the error has
\* settled; its failure is caught and logged
NoticeResult ==
  /\ Alive
  /\ proc.handler \in {"ignored_msg", "error_msg"}
  /\ \E sent \in BOOLEAN :
       proc' = IF sent THEN [proc EXCEPT !.handler = "idle"]
               ELSE [proc EXCEPT !.handler = "idle", !.failures = @ + 1]
  /\ UNCHANGED <<call, config, today, tick, ledgerVars, taskVars>>

\* the timer of startMonitoring fires
TimerFires ==
  /\ Alive
  /\ proc.monitoring
  /\ proc.ticks < MaxTicks
  /\ proc' = [proc EXCEPT !.ticks = @ + 1]
  /\ UNCHANGED <<call, config, today, tick, ledgerVars, taskVars>>

\* SIGINT: stopMonitoring, then (live) the notification of the stop, then exit(0)
Interrupt ==
  /\ Alive
  /\ proc.shutdown = "none"
  /\ proc' = IF config.dryRun
             THEN Exit([proc EXCEPT !.monitoring = FALSE, !.shutdown = "done"], 0)
             ELSE [proc EXCEPT !.monitoring = FALSE, !.shutdown = "goodbye"]
  /\ UNCHANGED <<call, config, today, tick, ledgerVars, taskVars>>

\* SIGINT: the notification of the stop has settled.  sendMessage throws what
\* the send threw, and the handler has no catch: the rejection of its promise is
\* unhandled, which ends the process with status 1 (Node 15 and later) or is
\* logged with the process going on (before).
GoodbyeResult ==
  /\ Alive
  /\ proc.shutdown = "goodbye"
  /\ \E sent \in BOOLEAN, ends \in BOOLEAN :
       proc' = IF sent THEN Exit([proc EXCEPT !.shutdown = "done"], 0)
               ELSE IF ends THEN Exit([proc EXCEPT !.shutdown = "rejected"], 1)
               ELSE [proc EXCEPT !.shutdown = "rejected"]
  /\ UNCHANGED <<call, config, today, tick, ledgerVars, taskVars>>

\* SIGTERM: stopMonitoring, exit(0)
Terminate ==
  /\ Alive
  /\ proc' = Exit([proc EXCEPT !.monitoring = FALSE, !.shutdown = "done"], 0)
  /\ UNCHANGED <<call, config, today, tick, ledgerVars, taskVars>>

LifeNext ==
  \/ ConnectResult
  \/ BalanceResult
  \/ AnnounceResult
  \/ Arrive
  \/ HandleResult
  \/ NoticeResult
  \/ TimerFires
  \/ Interrupt
  \/ GoodbyeResult
  \/ Terminate

Life == LifeInit /\ [][LifeNext]_vars

\* ---- claims ------------------------------------------------------------------
InProgress == {t \in Tasks : pc[t] \notin {"idle", "done"}}

TradeCounters == <<statistics.totalTrades, statistics.dailyTrades>>

HasOrderId(m, id) == \E i \in 1..Len(m) : m[i].orderId = id

\* C1: signals are processed one at a time: no handler begins while an
\* earlier one has neither completed nor failed.
C1_OneAtATime == Cardinality(InProgress) <= 1

\* C2: the open ledger never holds more than maxOpenPositions positions.
C2_MaxOpenPositions == Len(openPositions) <= maxOpenPositions

\* C3: the daily trade counter never exceeds maxDailyTrades.
C3_MaxDailyTrades == statistics.dailyTrades <= maxDailyTrades

\* C4: no opening order is submitted, and addOpenPosition is never invoked,
\* for a symbol the open ledger already holds.
C4_NoOpenForTrackedSymbol ==
  [][\A t \in Tasks :
       \/ order[t].kind # "open" /\ order'[t].kind = "open"
       \/ outcome[t] = "none" /\ outcome'[t] = "opened"
       => ~MapHas(openPositions, signal[t].symbol)]_vars

\* C5: when a CLOSE signal for a tracked symbol was processed without error,
\* the symbol is out of the open ledger when handleSignal returns, in live
\* mode as in dry-run mode.
C5_CloseRemovesEntry ==
  \A t \in Tasks :
    (pc[t] = "done" /\ signal[t].type = "CLOSE" /\ outcome[t] = "closed")
      => ~MapHas(openPositions, signal[t].symbol)

\* C6: a CLOSE signal for a symbol whose latest accepted signal was a CLOSE
\* issues no venue close order and changes no state.
C6_DuplicateCloseHarmless ==
  [][\A t \in Tasks :
       (pc[t] = "idle" /\ pc'[t] # "idle" /\ signal'[t].type = "CLOSE"
          /\ signal'[t].symbol \in lastClosed)
         => /\ order'[t] = NoOrder
            /\ UNCHANGED <<openPositions, closedPositions, TradeCounters>>]_vars

\* C7: a CLOSE signal for a symbol that is not in the open ledger is a no-op:
\* no venue call, no error raised or notified, ledger, history and trade
\* counters unchanged.
C7_StrayCloseIsNoop ==
  [][\A t \in Tasks :
       (pc[t] = "idle" /\ pc'[t] # "idle" /\ signal'[t].type = "CLOSE"
          /\ ~MapHas(openPositions, signal'[t].symbol))
         => /\ pc'[t] = "done"
            /\ outcome'[t] = "noop"
            /\ order'[t] = NoOrder
            /\ venueCalls'[t] = {}
            /\ notified'[t] = "none"
            /\ UNCHANGED <<openPositions, closedPositions, TradeCounters>>]_vars

C7_Witness ==
  \E t \in Tasks :
    /\ pc[t] = "done"
    /\ signal[t].type = "CLOSE"
    /\ ~MapHas(openPositions, signal[t].symbol)
    /\ outcome[t] = "noop"
    /\ Len(openPositions) > 0

\* C8: no two reconciliation ticks are in flight together.
C8_SingleFlight == Len(tick) <= 1

\* C9: a position leaves the open ledger only together with the append of a
\* closed record for that same position.
C9_RemovedMeansClosed ==
  [][\A i \in 1..Len(openPositions) :
       ~HasOrderId(openPositions', openPositions[i].orderId)
         => /\ Len(closedPositions') = Len(closedPositions) + 1
            /\ closedPositions'[Len(closedPositions')].orderId = openPositions[i].orderId
            /\ closedPositions'[Len(closedPositions')].symbol = openPositions[i].symbol]_vars

\* C10: a position enters the open ledger only in the step in which its
\* order placement (real or simulated) succeeds, and an OPEN signal whose
\* handling does not end in a fill leaves the ledger, the history and the
\* trade counters as they were.
C10_OpenOnlyOnFill ==
  [][/\ \A t \in Tasks :
          (pc'[t] # pc[t] /\ signal'[t].type = "OPEN" /\ outcome'[t] # "opened")
            => UNCHANGED <<openPositions, closedPositions, TradeCounters>>
     /\ (\E i \in 1..Len(openPositions') :
           ~HasOrderId(openPositions, openPositions'[i].orderId))
          => \E t \in Tasks :
               /\ outcome[t] = "none" /\ outcome'[t] = "opened"
               /\ config.dryRun \/ (pc[t] = "ordering" /\ order[t].kind = "open")]_vars

C10_Witness ==
  \E t \in Tasks :
    /\ signal[t].type = "OPEN"
    /\ outcome[t] = "failed"
    /\ order[t].kind = "open"
    /\ order[t].symbol = signal[t].symbol
    /\ ~MapHas(openPositions, signal[t].symbol)

\* ---- claims: admission gates ------------------------------------------------
\* handleSignal is entered with an OPEN signal
EntersOpen(t) == pc[t] = "idle" /\ pc'[t] # "idle" /\ signal'[t].type = "OPEN"

\* the gates 1-7 that signal sig fails, with the inputs c, in the ledger and
\* the counters as they are
FailingLocalGates(sig, c) ==
  (IF config.minSpreadPercent > 0 /\ (c.spread = 0 \/ c.spread < config.minSpreadPercent)
   THEN {1} ELSE {})
    \cup (IF c.blocked THEN {2} ELSE {})
    \cup (IF sig.direction # "LONG" /\ sig.direction # "SHORT" THEN {3} ELSE {})
    \cup (IF ~c.hoursActive THEN {4} ELSE {})
    \cup (IF \E i \in 1..Len(openPositions) : openPositions[i].symbol = sig.symbol
          THEN {5} ELSE {})
    \cup (IF Len(openPositions) >= maxOpenPositions THEN {6} ELSE {})
    \cup (IF statistics.dailyTrades >= maxDailyTrades THEN {7} ELSE {})

Lowest(S) == CHOOSE g \in S : \A h \in S : g <= h

\* C11: an OPEN signal that fails one of gates 1-7 makes no venue call
\* (balance, contract, price, order), neither in the step that rejects it nor
\* later in its handling.
C11_LocalRejectNoVenueCall ==
  [][\A t \in Tasks :
       /\ (EntersOpen(t) /\ FailingLocalGates(signal'[t], checked'[t]) # {})
            => /\ venueCalls'[t] = {}
               /\ order'[t] = NoOrder
               /\ pc'[t] \in {"done", "ignored_msg"}
       /\ (outcome[t] = "rejected" /\ reason[t] \in 1..7)
            => venueCalls'[t] = {} /\ order'[t] = NoOrder]_vars

C11_Witness ==
  \E t \in Tasks :
    /\ signal[t].type = "OPEN"
    /\ outcome[t] = "rejected"
    /\ reason[t] = 6
    /\ venueCalls[t] = {}
    /\ order[t] = NoOrder

\* C12: the rejection reason is that of the lowest-numbered failing gate; a
\* gate 8 or 9 reason is given only to a signal that passed gates 1-7, and a
\* gate 8 rejection is made before the contract query of gate 9.
C12_LowestGateReported ==
  [][\A t \in Tasks :
       /\ EntersOpen(t) =>
            LET failing == FailingLocalGates(signal'[t], checked'[t])
            IN  IF failing = {}
                THEN reason'[t] = 0 /\ outcome'[t] = "none"
                ELSE reason'[t] = Lowest(failing) /\ outcome'[t] = "rejected"
       /\ (reason[t] = 0 /\ reason'[t] \in {8, 9})
            => /\ pc[t] = "preparing"
               /\ "balance" \in venueCalls'[t]
               /\ reason'[t] = 8 <=> "info" \notin venueCalls'[t]]_vars

C12_Witness ==
  \E t \in Tasks :
    /\ outcome[t] = "rejected"
    /\ reason[t] = 2
    /\ checked[t].blocked
    /\ ~checked[t].hoursActive

\* ---- claims: reconciliation -------------------------------------------------
Count(q, r) == Cardinality({i \in 1..Len(q) : q[i] = r})

\* a checkPositions call leaves the place r it was at
Leaves(r) == Count(tick', r) < Count(tick, r)

\* a checkPositions call arrives at the place r
Arrives(r) == Count(tick', r) > Count(tick, r)

Later(m, r) == SelectSeq(m, LAMBDA e : IsAfter(r.tracked.slot, e))

\* C13: a failure while reconciling one symbol leaves the ledger and the
\* history as they are and does not end the tick: the loop goes on with the
\* next tracked entry.
C13_TickFailureIsolated ==
  [][\A i \in 1..Len(tick) :
       LET r == tick[i] IN
       Leaves(r) =>
         /\ \A j \in 1..Len(tick') :
              (tick'[j].caught /\ Arrives(tick'[j]))
                => UNCHANGED <<openPositions, closedPositions>>
         /\ \/ UNCHANGED <<openPositions, closedPositions>>
            \/ r.pc = "history" /\ Len(closedPositions') = Len(closedPositions) + 1
         /\ \/ r.pc = "positions" /\ Arrives([r EXCEPT !.pc = "history"])
            \/ IF Later(openPositions', r) = <<>>
               THEN Len(tick') = Len(tick) - 1
               ELSE /\ Len(tick') = Len(tick)
                    /\ \E j \in 1..Len(tick') :
                         /\ tick'[j].pc = "positions"
                         /\ tick'[j].tracked = Head(Later(openPositions', r))
                         /\ Arrives(tick'[j])]_vars

C13_Witness ==
  /\ Len(openPositions) = 2
  /\ closedPositions = <<>>
  /\ \E j \in 1..Len(tick) :
       /\ tick[j].caught
       /\ tick[j].pc = "positions"
       /\ tick[j].tracked = openPositions[2]

\* C14: when handlePositionClosed changes anything, the symbol has left the
\* open ledger (the other entries are kept) and exactly one record has been
\* appended to the history, with the symbol, direction, entry price, quantity
\* and order id of the observed position, an exit price (the entry price or a
\* fill's price), a pnl and a pnl percent; and a call that goes on without
\* having caught an error has made that move.
C14_ExternallyClosedIsMoved ==
  [][\A i \in 1..Len(tick) :
       LET r == tick[i]
           n == Len(closedPositions')
       IN
       (r.pc = "history" /\ Leaves(r)) =>
         /\ ~UNCHANGED <<openPositions, closedPositions>> =>
              /\ \A j \in 1..Len(openPositions') :
                   openPositions'[j].symbol # r.tracked.symbol
              /\ openPositions' =
                   SelectSeq(openPositions, LAMBDA e : IsNot(r.tracked.symbol, e))
              /\ n = Len(closedPositions) + 1
              /\ SubSeq(closedPositions', 1, n - 1) = closedPositions
              /\ closedPositions'[n].symbol = r.tracked.symbol
              /\ closedPositions'[n].direction = r.tracked.direction
              /\ closedPositions'[n].entryPrice = r.tracked.entryPrice
              /\ closedPositions'[n].quantity = r.tracked.quantity
              /\ closedPositions'[n].orderId = r.tracked.orderId
              /\ closedPositions'[n].exitPrice
                   \in {r.tracked.entryPrice} \cup {h.price : h \in HistoryResp}
              /\ {"pnl", "pnlPercent"} \subseteq DOMAIN closedPositions'[n]
         /\ (\E j \in 1..Len(tick') : ~tick'[j].caught /\ Arrives(tick'[j]))
              => Len(closedPositions') = Len(closedPositions) + 1]_vars

C14_Witness ==
  /\ Len(closedPositions) = 1
  /\ closedPositions[1].closeTrade
  /\ closedPositions[1].exitPrice # closedPositions[1].entryPrice
  /\ closedPositions[1].orderId = 1
  /\ ~MapHas(openPositions, closedPositions[1].symbol)

\* C15: a closed record made without a fill on the closing side has the
\* entry price as its exit price and a realized profit of zero.
C15_NoFillMeansEntryPrice ==
  \A i \in 1..Len(closedPositions) :
    ~closedPositions[i].closeTrade
      => /\ closedPositions[i].exitPrice = closedPositions[i].entryPrice
         /\ closedPositions[i].pnl = 0

C15_Witness ==
  \E i \in 1..Len(closedPositions) :
    /\ ~closedPositions[i].closeTrade
    /\ closedPositions[i].entryPrice > 0
    /\ closedPositions[i].quantity > 0

\* C16: the step that handles the venue's answer to getOpenPositions (a
\* nonzero size included) leaves the open ledger and the history unchanged.
C16_RefreshChangesNothing ==
  [][\A i \in 1..Len(tick) :
       (tick[i].pc = "positions" /\ Leaves(tick[i]))
         => UNCHANGED <<openPositions, closedPositions>>]_vars

C16_Witness ==
  /\ Len(openPositions) = 2
  /\ closedPositions = <<>>
  /\ \E j \in 1..Len(tick) :
       /\ ~tick[j].caught
       /\ tick[j].pc = "positions"
       /\ tick[j].tracked = openPositions[2]

\* ---- claims: the ledger -----------------------------------------------------
\* what removeOpenPosition returns: the entry, or null
removedPosition(m, symbol) == MapGet(m, symbol)

SomePosition(symbol) ==
  [symbol |-> symbol, direction |-> DirectionOf(symbol), entryPrice |-> 7, quantity |-> 9,
   orderId |-> orderSeq + 1, slot |-> orderSeq + 1]

\* C17: hasOpenPosition is true right after addOpenPosition and false right
\* after removeOpenPosition; removeOpenPosition returns the removed position,
\* or null and leaves the ledger unchanged when the symbol was not tracked.
C17_LedgerRoundTrip ==
  \A symbol \in Symbols :
    LET added == addOpenPosition(openPositions, SomePosition(symbol))
        removed == removeOpenPosition(openPositions, symbol)
    IN  /\ MapHas(added, symbol)
        /\ ~MapHas(removed, symbol)
        /\ ~MapHas(removeOpenPosition(added, symbol), symbol)
        /\ IF \E i \in 1..Len(openPositions) : openPositions[i].symbol = symbol
           THEN /\ removedPosition(openPositions, symbol) \in
                     {openPositions[i] : i \in 1..Len(openPositions)}
                /\ removedPosition(openPositions, symbol).symbol = symbol
                /\ Len(removed) = Len(openPositions) - 1
           ELSE /\ removedPosition(openPositions, symbol) = NoPosition
                /\ removed = openPositions

C17_Witness ==
  /\ Len(openPositions) = 1
  /\ orderSeq = 2
  /\ openPositions[1].orderId = 2

\* C18: addOpenPosition for a symbol already in the ledger keeps the count,
\* leaves one entry for the symbol, and that entry holds the later data; the
\* ledger never holds two entries for one symbol.
C18_SecondAddOverwrites ==
  /\ \A i, j \in 1..Len(openPositions) :
       openPositions[i].symbol = openPositions[j].symbol => i = j
  /\ \A i \in 1..Len(openPositions) :
       LET symbol == openPositions[i].symbol
           again == addOpenPosition(openPositions, SomePosition(symbol))
       IN  /\ Len(again) = Len(openPositions)
           /\ Cardinality({j \in 1..Len(again) : again[j].symbol = symbol}) = 1
           /\ MapGet(again, symbol).entryPrice = SomePosition(symbol).entryPrice
           /\ MapGet(again, symbol).quantity = SomePosition(symbol).quantity
           /\ MapGet(again, symbol).orderId = SomePosition(symbol).orderId
           /\ \A j \in 1..Len(again) : j # i => again[j] = openPositions[j]

C18_Witness ==
  \E i \in 1..Len(openPositions) :
    /\ openPositions[i].orderId # openPositions[i].slot
    /\ Cardinality({j \in 1..Len(openPositions) :
                      openPositions[j].symbol = openPositions[i].symbol}) = 1

\* ---- claims: the calendar ---------------------------------------------------
\* C19: the daily reset empties the history and sets dailyTrades and
\* signalsIgnored to 0, and leaves the open ledger as it was.
C19_DailyResetKeepsLedger ==
  [][statistics'.lastResetDate # statistics.lastResetDate
       => /\ closedPositions' = <<>>
          /\ statistics'.dailyTrades = 0
          /\ statistics'.signalsIgnored = 0
          /\ statistics'.lastResetDate = today
          /\ openPositions' = openPositions]_vars

C19_Witness ==
  /\ ~config.dryRun
  /\ statistics.lastResetDate = 1
  /\ statistics.totalTrades = 2
  /\ statistics.dailyTrades = 0
  /\ Len(openPositions) = 1
  /\ closedPositions = <<>>

\* C20: when gate 7 is evaluated for an OPEN signal, dailyTrades counts no
\* trade opened before the current calendar day.
C20_GateSevenCountsToday ==
  [][\A t \in Tasks :
       (EntersOpen(t) /\ (pc'[t] = "preparing" \/ reason'[t] = 7))
         => ~statistics.countsOld]_vars

\* ---- claims: orders --------------------------------------------------------------
\* the quantities calculatePositionParameters can plan for a signal
PlannedLots(sig) ==
  {s.positionParams.quantity : s \in {z \in Sizings : z.direction = sig.direction
                                                     /\ z.positionParams.ok}}

\* C34: the order an accepted OPEN submits is a buy for LONG and a sell for
\* SHORT, of the symbol of the signal and with the quantity of the sizing;
\* the order a live CLOSE submits is a sell for a tracked LONG and a buy for a
\* tracked SHORT, with the quantity of the tracked position.
C34_OrderSides ==
  [][\A t \in Tasks :
       (order'[t] # order[t] /\ order'[t] # NoOrder) =>
         IF order'[t].kind = "open"
         THEN /\ signal[t].type = "OPEN"
              /\ order'[t].symbol = signal[t].symbol
              /\ order'[t].side = (IF signal[t].direction = "LONG" THEN "buy" ELSE "sell")
              /\ order'[t].size \in PlannedLots(signal[t])
              /\ order'[t].size = plan'[t].quantity
         ELSE /\ order'[t].kind = "close"
              /\ signal'[t].type = "CLOSE"
              /\ order'[t].symbol = signal'[t].symbol
              /\ hasOpenPosition(signal'[t].symbol)
              /\ order'[t].side = (IF getOpenPosition(signal'[t].symbol).direction = "LONG"
                                    THEN "sell" ELSE "buy")
              /\ order'[t].size = getOpenPosition(signal'[t].symbol).quantity]_vars

\* a position opened SHORT by a sell is being closed by a buy of its quantity,
\* while an OPEN for LONG has its buy in flight
C34_Witness ==
  \E t \in Tasks, u \in Tasks :
    /\ pc[t] = "closing"
    /\ hasOpenPosition(signal[t].symbol)
    /\ getOpenPosition(signal[t].symbol).direction = "SHORT"
    /\ order[t] = [kind |-> "close", symbol |-> signal[t].symbol, side |-> "buy",
                    size |-> getOpenPosition(signal[t].symbol).quantity]
    /\ order[t].size > 0
    /\ pc[u] = "ordering"
    /\ signal[u].direction = "LONG"
    /\ order[u].kind = "open" /\ order[u].side = "buy" /\ order[u].size = plan[u].quantity

\* ---- claims: reconciliation, liveness ---------------------------------------------
Tracked(id) == HasOrderId(openPositions, id)
Recorded(id) == \E i \in 1..Len(closedPositions) : closedPositions[i].orderId = id

\* C35: while the timer fires and the venue answers with size zero, every
\* position of the open ledger is in the end out of the open ledger and in the
\* closed history.
C35_EventuallyReconciled ==
  \A id \in 1..NumSignals : Tracked(id) ~> (~Tracked(id) /\ Recorded(id))

\* C36: the closed history never holds two records of the same opened position
\* (the same symbol and order id).
C36_MigratedAtMostOnce ==
  \A i \in 1..Len(closedPositions), j \in 1..Len(closedPositions) :
    (closedPositions[i].orderId = closedPositions[j].orderId
       /\ closedPositions[i].symbol = closedPositions[j].symbol) => i = j

\* C37: the entry a tick deletes from the open ledger when it records a
\* position as closed is that position (the same order id): an entry with
\* another order id, opened for the symbol in the meantime, stays.
C37_RemovesWhatItObserved ==
  [][Len(closedPositions') = Len(closedPositions) + 1 =>
       \A i \in 1..Len(openPositions) :
         ~HasOrderId(openPositions', openPositions[i].orderId)
           => openPositions[i].orderId = closedPositions'[Len(closedPositions')].orderId]_vars

\* ---- claims: dry run -------------------------------------------------------------
\* C38: in dry-run mode no handler ever has an order with the venue
\* (openMarketOrder and closeMarketOrder are not called), while an accepted
\* OPEN still registers the position and counts the trade, and a CLOSE of a
\* tracked symbol still takes the entry out of the ledger.
C38_DryRunSendsNothing ==
  [][config.dryRun =>
       \A t \in Tasks :
         /\ order'[t] = NoOrder
         /\ pc'[t] \notin {"ordering", "closing"}
         /\ (outcome[t] # "opened" /\ outcome'[t] = "opened") =>
              /\ MapHas(openPositions', signal[t].symbol)
              /\ MapGet(openPositions', signal[t].symbol).orderId = orderSeq'
              /\ MapGet(openPositions', signal[t].symbol).direction = signal[t].direction
              /\ statistics'.totalTrades = statistics.totalTrades + 1
              /\ statistics'.dailyTrades = statistics.dailyTrades + 1
         /\ (outcome[t] # "closed" /\ outcome'[t] = "closed") =>
              /\ hasOpenPosition(signal'[t].symbol)
              /\ ~MapHas(openPositions', signal'[t].symbol)]_vars

\* dry run: two trades counted, one position tracked, and a CLOSE has just
\* taken an entry out of the ledger, with no order anywhere
C38_Witness ==
  /\ config.dryRun
  /\ statistics.totalTrades = 2
  /\ Len(openPositions) = 1
  /\ \E t \in Tasks : outcome[t] = "closed" /\ signal[t].type = "CLOSE"
  /\ \A t \in Tasks : order[t] = NoOrder

\* C39: in dry-run mode an entry leaves the open ledger only when a CLOSE
\* signal for its symbol is processed, and no reconciliation tick removes it
\* or records it as closed.
C39_SimulatedStaysUntilClose ==
  [][config.dryRun =>
       /\ Len(closedPositions') <= Len(closedPositions)
       /\ \A i \in 1..Len(openPositions) :
            ~HasOrderId(openPositions', openPositions[i].orderId) =>
              \E t \in Tasks : /\ signal'[t].type = "CLOSE"
                               /\ signal'[t].symbol = openPositions[i].symbol
                               /\ outcome[t] # "closed"
                               /\ outcome'[t] = "closed"]_vars

\* ---- claims: the daily report ----------------------------------------------------
\* C40: the report sendDailyReport builds on a new date counts the closed
\* records the history held when the reset came: its trades are all of them,
\* its wins those with pnl >= 0 and its losses the others.
C40_ReportCoversTheDay ==
  (call.op = "sendDailyReport" /\ call.changed) =>
    LET wins == {i \in 1..Len(call.before) : call.before[i].pnl >= 0}
    IN  /\ call.report.totalTrades = Len(call.before)
        /\ call.report.winTrades = Cardinality(wins)
        /\ call.report.loseTrades = Len(call.before) - Cardinality(wins)

\* ---- claims: the life of the process ------------------------------------------
\* C24: an error raised while a signal is processed (by the venue, the sizing
\* or a notification that fails) does not leave handleSignal and changes
\* nothing of the process: the callback stays registered, the timer stays set,
\* the process runs on; and a signal that arrives after an error is handed to
\* handleSignal as before.
C24_ErrorsStayLocal ==
  [][/\ proc'.failures > proc.failures
          => /\ ~proc'.escaped
             /\ proc'.handler \in {"idle", "error_msg"}
             /\ proc'.callbacks = proc.callbacks
             /\ proc'.monitoring = proc.monitoring
             /\ proc'.exited = proc.exited
     /\ (proc'.arrived > proc.arrived /\ proc.callbacks > 0 /\ proc.failures > 0)
          => /\ proc'.dispatched = proc.dispatched + 1
             /\ proc'.handler = "processing"]_vars

\* after an error and a notification of it that failed, the next signal is
\* being processed and the timer has fired
C24_Witness ==
  /\ Alive
  /\ proc.failures >= 2
  /\ proc.dispatched = 2
  /\ proc.handler = "processing"
  /\ proc.monitoring
  /\ proc.ticks > 0

\* C25: on SIGINT or SIGTERM the timer of the reconciliation is stopped, and
\* the process then exits with status 0, also when the notification of the
\* stop cannot be sent.
C25_SignalExitsZero ==
  [][/\ (proc.shutdown = "none" /\ proc'.shutdown # "none") => ~proc'.monitoring
     /\ (proc.shutdown = "goodbye" /\ proc'.shutdown # "goodbye")
          => (proc'.exited /\ proc'.status = 0)]_vars

\* C26: if the first connection to the venue fails the process exits with
\* status 1, and no signal has been handed to handleSignal and the timer has
\* not fired; and neither happens while the connection is still awaited.
C26_NothingBeforeConnect ==
  /\ proc.init = "connect_failed"
       => (proc.exited /\ proc.status = 1 /\ proc.dispatched = 0 /\ proc.ticks = 0)
  /\ proc.init = "connecting" => (proc.dispatched = 0 /\ proc.ticks = 0)

\* the connection failed after signals had arrived
C26_Witness ==
  /\ proc.init = "connect_failed"
  /\ proc.arrived = MaxMessages
  /\ proc.status = 1

\* ---- claims: the history ------------------------------------------------------
\* C27: between daily resets the closed history only grows at its end: a step
\* leaves it alone or appends one record, and what it held stays in place; the
\* only removal is the clearing of the whole history by the daily reset.
C27_HistoryAppendOnly ==
  [][\/ closedPositions' = closedPositions
     \/ /\ Len(closedPositions') = Len(closedPositions) + 1
        /\ SubSeq(closedPositions', 1, Len(closedPositions)) = closedPositions
     \/ /\ closedPositions' = <<>>
        /\ statistics'.lastResetDate # statistics.lastResetDate]_vars

\* two closes recorded, the earlier one first
C27_Witness ==
  /\ Len(closedPositions) = 2
  /\ closedPositions[1] # closedPositions[2]

\* the records of the history with a profit or none, and those with a loss
Wins == {i \in 1..Len(closedPositions) : closedPositions[i].pnl >= 0}

Losses == {i \in 1..Len(closedPositions) : closedPositions[i].pnl < 0}

\* the sum of the pnl of the records from the i'th on
RECURSIVE PnlFrom(_)
PnlFrom(i) == IF i > Len(closedPositions) THEN 0 ELSE closedPositions[i].pnl + PnlFrom(i + 1)

\* C28: getStatistics returns the numbers of the closed history as it is:
\* totalTrades its length, winTrades the records with pnl >= 0, loseTrades the
\* records with pnl < 0, both together all of them, totalPnl the sum of the
\* pnl; and the call changes nothing of the ledger.
C28_StatisticsRecomputed ==
  [][call'.op = "getStatistics"
       => /\ UNCHANGED <<openPositions, closedPositions, statistics>>
          /\ call'.result.totalTrades = Len(closedPositions)
          /\ call'.result.winTrades = Cardinality(Wins)
          /\ call'.result.loseTrades = Cardinality(Losses)
          /\ call'.result.winTrades + call'.result.loseTrades = call'.result.totalTrades
          /\ call'.result.totalPnl = PnlFrom(1)]_vars

\* statistics of a history with a loss, a close at the entry price and a profit
C28_Witness ==
  /\ call.op = "getStatistics"
  /\ call.result.totalTrades = 3
  /\ call.result.loseTrades = 1
  /\ call.result.totalPnl = 0
  /\ \E i \in Wins : closedPositions[i].pnl = 0

\* ---- claims: the spread filter ------------------------------------------------
\* C29: with no minimum spread configured, or one that is not above zero,
\* gate 1 rejects no OPEN signal; with a minimum above zero, an OPEN signal is
\* rejected at gate 1 exactly when its spread is absent or below the minimum.
C29_SpreadFilter ==
  call.op = "validateSignal"
    => /\ config.minSpreadPercent <= 0 => call.result # 1
       /\ config.minSpreadPercent > 0
            => (call.result = 1 <=> (call.spread = 0 \/ call.spread < config.minSpreadPercent))

\* a signal without a spread that a bot without a minimum lets through all the gates
C29_Witness ==
  /\ call.op = "validateSignal"
  /\ config.minSpreadPercent <= 0
  /\ call.spread = 0
  /\ call.result = 0

\* ---- claims: the parser -----------------------------------------------------------
\* the text holds the red circle, or the green one
HasMarker(text) == \E i \in 1..Len(text) : text[i].units \in {Red, Green}

EntryNeverParsed == call.op = "parseEntrySignal" => call.result = Null

\* C33: the exit parser tries its patterns in their order (the check mark with
\* dash and "Tseny", with dash, with a blank, then any word before
\* "sravnyalis") and the signal it returns holds the type CLOSE, the symbol of
\* the first pattern that matches and the time of the call, and nothing else;
\* when no pattern matches it returns nothing and no callback is called.
C33_CloseCarriesSymbolOnly ==
  call.op = "handleChannelMessage" =>
    LET byOrder == [n \in 1..4 |-> Leftmost(call.text, n)]
        matching == {i \in 1..4 : byOrder[i] # <<>>}
    IN  IF matching = {}
        THEN call.signal = Null /\ call.dispatched = <<>>
        ELSE /\ DOMAIN call.signal = {"type", "symbol", "timestamp"}
             /\ call.signal.type = "CLOSE"
             /\ call.signal.symbol = byOrder[CHOOSE i \in matching : \A j \in matching : i <= j][1]
             /\ call.signal.timestamp = call.now
             /\ call.dispatched = <<call.signal>>

\* a closing alert with another word before the check mark: the symbol is the
\* one after the check mark, which the fallback pattern would not give
C33_Witness ==
  /\ call.op = "handleChannelMessage"
  /\ call.text = <<"BUSDTM", " ", "check", " ", "AUSDTM", " ", "-", " ", "Tseny", " ",
                   "sravnyalis">>
  /\ call.now = 2
  /\ call.dispatched = <<[type |-> "CLOSE", symbol |-> "AUSDTM", timestamp |-> 2]>>

\* a text with the check mark and the two Russian words and no symbol: nothing
C33_NoSymbol ==
  /\ call.op = "handleChannelMessage"
  /\ call.text = <<"check", " ", "Tseny", " ", "sravnyalis">>
  /\ call.signal = Null
  /\ call.dispatched = <<>>

\* the text has the alert header, a symbol between the hands, a last price, a
\* fair price and one of the two circles
WellFormed(text) ==
  /\ isEntry(text)
  /\ Labelled(text, "symbol")[1].value # ""
  /\ Labelled(text, "Last:") # <<>> \/ Labelled(text, "Poslednyaya tsena:") # <<>>
  /\ Labelled(text, "Mark:") # <<>> \/ Labelled(text, "Spravedlivaya:") # <<>>
  /\ HasMarker(text)

\* the table of _parseEntrySignal: the red circle is LONG, the green one SHORT
MarkerOf(text) == (CHOOSE i \in 1..Len(text) : text[i].units \in {Red, Green})
DirectionFor(text) == IF text[MarkerOf(text)].units = Red THEN "LONG" ELSE "SHORT"

\* C31: for a well-formed alert the entry parser returns an OPEN signal whose
\* direction is the one the table gives for the circle in the text, LONG or
\* SHORT and never nothing, whatever the prices are.
C31_DirectionFromMarker ==
  (call.op = "parseEntrySignal" /\ WellFormed(call.text))
    => /\ call.result # Null
       /\ call.result.type = "OPEN"
       /\ call.result.direction = DirectionFor(call.text)

\* the value under the first label of the list that the text holds
FirstOf(text, labels) ==
  LET held == {i \in 1..Len(labels) : Labelled(text, labels[i]) # <<>>}
  IN  IF held = {} THEN <<>>
      ELSE Labelled(text, labels[CHOOSE i \in held : \A j \in held : i <= j])

LastLabels == <<"Last:", "Poslednyaya tsena:">>
MarkLabels == <<"Mark:", "Spravedlivaya:">>

\* C32: the last price of the signal is the value under the first label of
\* the list of last-price labels that the text holds, and the fair price the
\* value under the first label of the list of fair-price labels, also when
\* the text holds several of them; when the text holds none of the labels of
\* a field the parser returns nothing.
C32_FirstLabelWins ==
  (call.op = "parseEntrySignal" /\ isEntry(call.text) /\ HasMarker(call.text)
     /\ Labelled(call.text, "symbol")[1].value # "")
    => IF FirstOf(call.text, LastLabels) = <<>> \/ FirstOf(call.text, MarkLabels) = <<>>
       THEN call.result = Null
       ELSE /\ call.result # Null
            /\ call.result.lastPrice = FirstOf(call.text, LastLabels)[1].value
            /\ call.result.fairPrice = FirstOf(call.text, MarkLabels)[1].value

\* ---- claims: sizing -----------------------------------------------------------
\* the arguments of the sizing call in the state, and the limits the contract sets
SizingCall == call.op = "calculatePositionParameters"

MinLots == IF call.limits.min = 0 THEN 1 ELSE call.limits.min

MaxLots == IF call.limits.max = 0 THEN 1000000 ELSE call.limits.max

\* floor(B * S / 100 / (P * M)) of the decimals B, P and M, in whole numbers
FormulaLots ==
  (call.balance.n * positionSizePercent * 10^(call.entryPrice.d + call.multiplier.d))
    \div (100 * 10^call.balance.d * call.entryPrice.n * call.multiplier.n)

FormulaQuantity == Clamp(FormulaLots, MinLots, MaxLots)

\* quantity * P * M / L, of the numbers P and M
FormulaMargin(quantity) ==
  fdiv[fmul[fmul[Num[quantity], NumberOf(call.entryPrice)], NumberOf(call.multiplier)],
       Num[leverage]]

\* C21: when sizing returns a plan for positive balance B, price P, multiplier M,
\* leverage L and size percent S, the quantity is floor(B * S / 100 / (P * M))
\* clamped to the limits of the contract, and the required margin is
\* quantity * P * M / L.
C21_SizingFormula ==
  (SizingCall /\ call.result.ok /\ call.multiplier.n > 0)
    => /\ call.result.quantity = FormulaQuantity
       /\ call.result.requiredMargin = FormulaMargin(call.result.quantity)

\* the example: B = 1000, P = 10, M = 0.01, L = 10, S = 5 give 500 lots and margin 5
C21_Example ==
  (/\ SizingCall
   /\ call.balance = [n |-> 1000, d |-> 0]
   /\ call.entryPrice = [n |-> 10, d |-> 0]
   /\ call.multiplier = [n |-> 1, d |-> 2]
   /\ call.direction \in Directions
   /\ call.limits = [min |-> 0, max |-> 0])
    => /\ call.result.ok
       /\ call.result.quantity = 500
       /\ call.result.requiredMargin = Num[5]

\* the arguments the validation of the sizing lets through
ValidArgs ==
  /\ call.balance.d >= 0 /\ call.balance.n > 0
  /\ call.entryPrice.d >= 0 /\ call.entryPrice.n > 0
  /\ call.direction \in Directions

\* quantity * P * M / L > B, in whole numbers
MarginExceeds(quantity) ==
  quantity * call.entryPrice.n * call.multiplier.n * 10^call.balance.d
    > call.balance.n * leverage * 10^(call.entryPrice.d + call.multiplier.d)

\* C22: the margin is checked on the quantity after the clamp, the quantity
\* raised to minOrderQty included: sizing returns a plan only if the required
\* margin of the clamped quantity is at most the balance, and fails with
\* "Insufficient balance" otherwise.
C22_MarginAfterClamp ==
  (SizingCall /\ ValidArgs /\ call.multiplier.n > 0)
    => /\ call.result.ok
            => /\ ~fless[NumberOf(call.balance), call.result.requiredMargin]
               /\ ~MarginExceeds(call.result.quantity)
       /\ ~call.result.ok
            => /\ call.result.error = "Insufficient balance"
               /\ MarginExceeds(FormulaQuantity)

\* a quantity raised to minOrderQty whose margin the balance does not cover
C22_Witness ==
  /\ SizingCall /\ ValidArgs /\ call.multiplier.n > 0
  /\ FormulaLots < MinLots
  /\ MarginExceeds(MinLots)
  /\ ~MarginExceeds(FormulaLots)
  /\ call.result.error = "Insufficient balance"

\* C23: sizing fails with an invalid-input error and returns no plan whenever
\* the balance is not positive, the price is not positive or the direction is
\* neither LONG nor SHORT, whatever the sizing of these arguments would give.
C23_InvalidInputRejected ==
  (/\ SizingCall
   /\ \/ (call.balance.d >= 0 /\ call.balance.n <= 0)
      \/ (call.entryPrice.d >= 0 /\ call.entryPrice.n <= 0)
      \/ call.direction \notin Directions)
    => /\ ~call.result.ok
       /\ call.result.error \in {"Invalid balance", "Invalid entry price", "Invalid direction"}
       /\ call.result.quantity = 0

\* a direction that is none, with arguments whose margin the balance does not cover
C23_Witness ==
  /\ SizingCall
  /\ call.direction \notin Directions
  /\ call.balance.n > 0 /\ call.entryPrice.n > 0 /\ call.multiplier.n > 0
  /\ MarginExceeds(MinLots)
  /\ call.result.error = "Invalid direction"

====
